---- MODULE Spec2Model ----
(***************************************************************************)
(* Chain-event synchronisation of the Liar's Bar client.                   *)
(*                                                                         *)
(* The module models the transaction poller of useGameEvents (one table    *)
(* subscription: the closure variables isActive, lastSignature and         *)
(* isInitialized, the poll() invocations in flight, the interval), the     *)
(* decoding of log lines into GameEventPayload values, the reducer         *)
(* updateGameState, and the consumers fed by handleEvent (event log,       *)
(* animation trigger and its expiry timers, the parent callback).          *)
(*                                                                         *)
(* A signature is the position of its transaction on the ledger: 1 is the  *)
(* oldest transaction of the table address, a larger number is newer, and  *)
(* 0 stands for "undefined" (no cursor yet).                               *)
(***************************************************************************)
EXTENDS Naturals, Integers, Sequences, FiniteSets, Bags, TLC

VARIABLES
    chain,            \* the ledger: transactions of the table address, oldest first
    polls,            \* the poll() invocations started so far, in start order
    isActive,         \* closure variable isActive
    intervalOn,       \* whether the setInterval(poll, POLL_INTERVAL) is still set
    lastSignature,    \* closure variable lastSignature (0 = undefined)
    isInitialized,    \* closure variable isInitialized
    gameState,        \* React state gameState
    eventLog,         \* React state eventLog
    activeAnimation,  \* React state activeAnimation
    timers,           \* pending setTimeout callbacks of handleAnimation (bag of Timer records)
    delivered,        \* the calls of onGameEvent made so far, with their origin
    now,              \* Date.now()
    runs,             \* the decryptMyCards() invocations started so far, in start order
    myCards,          \* React state myCards of useTable (the revealed hand)
    isDecryptingCards, \* React state isDecryptingCards
    decryptFailed,    \* React state decryptFailed
    tableGameState,   \* React state gameState of useTable ("lobby" or "playing")
    myEncryptedCards, \* encryptedCards of this wallet in tableData
    playerCards,      \* cards of the player account on chain
    cardCache,        \* localStorage under liar-cards-<table>-<wallet>: <<>> or <<item>>
    round,            \* rounds dealt on chain so far
    roundsSeen,       \* roundStarted events handled by handleGameEvent so far
    cardForm,         \* the shape in which Anchor hands over an Euint128 (none before the first deal)
    otherCache,       \* localStorage under the card-cache keys of other tables and wallets
    cacheCall,        \* the last call of a card-cache helper made on its own, with its result
    submits,          \* the calls of the transaction-sending actions of useTable, in start order
    reloads,          \* how many times the page was loaded again
    debouncer,        \* the timer of fetchDebounceRef and the times since the calls around it
    health,           \* useConnectionStatus: status, failCountRef, its interval and its probes
    fetcher,          \* the fetchTable() calls in flight, initialFetchDone and the RPC failures so far
    isShufflingRef,   \* isShufflingRef.current
    cardHandleMap     \* cardHandleMap.current: the decrypted card recorded for each pair of handles

\* State of the useTable hook and of what it reads on chain and in localStorage.
tableVars == <<runs, myCards, isDecryptingCards, decryptFailed, tableGameState,
               myEncryptedCards, playerCards, cardCache, round, roundsSeen, cardForm>>

\* The rest of localStorage, the calls made on the card-cache helpers alone,
\* and the transaction-sending actions of useTable.
serviceVars == <<otherCache, cacheCall, submits, reloads, debouncer, health, fetcher, isShufflingRef, cardHandleMap>>

\* State of the useGameEvents hook and of the ledger it polls.
eventVars == <<chain, polls, isActive, intervalOn, lastSignature, isInitialized,
               gameState, eventLog, activeAnimation, timers, delivered, now>>

vars == <<chain, polls, isActive, intervalOn, lastSignature, isInitialized,
          gameState, eventLog, activeAnimation, timers, delivered, now,
          runs, myCards, isDecryptingCards, decryptFailed, tableGameState,
          myEncryptedCards, playerCards, cardCache, round, roundsSeen, cardForm,
          otherCache, cacheCall, submits, reloads, debouncer, health, fetcher, isShufflingRef, cardHandleMap>>

----------------------------------------------------------------------------
(* Bounds of the model *)

MaxTx == 3        \* transactions confirmed on the table address
MaxPolls == 2     \* poll() invocations over the life of the subscription
MaxOverlap == 4   \* the same, where deeper overlap of invocations is explored
MaxTime == 1      \* largest value of the clock
MaxMoves == 2     \* moves kept per round when events are applied directly
MaxRuns == 2      \* decryptMyCards() invocations over the life of the hook
MaxHand == 2      \* cards dealt to the player in a round
MaxRounds == 2    \* rounds dealt on chain

(* Program constants *)

PageLimit == 10       \* getSignaturesForAddress limit once a cursor exists
BaselineLimit == 1    \* limit of the first listing
EventLogKeep == 49    \* entries kept before the new one is appended

----------------------------------------------------------------------------
(* Identities, tables and events *)

Null == "none"

TableId == "T1"          \* the table of the subscription
OtherTable == "T2"       \* any other table
Players == {"p1", "p2"}

EventNames == {"liarsTableCreated", "playerJoined", "suffleCardsForPlayer",
               "roundStarted", "tableTrun", "cardPlaced", "liarCalled",
               "emptyBulletFired", "playerEleminated", "gameOver", "gameWinner"}

\* GameEventPayload; a field the variant does not carry is Null.
Payload(type, tableId, player, next, caller) ==
    [type |-> type, tableId |-> tableId, player |-> player, next |-> next,
     caller |-> caller]

NoEvent == Payload(Null, Null, Null, Null, Null)

\* The payloads mapDecodedToPayload can return for table t.
EventsOf(t) ==
    {Payload(n, t, Null, Null, Null) :
        n \in {"liarsTableCreated", "roundStarted", "gameOver"}}
    \cup {Payload(n, t, p, Null, Null) :
            n \in {"playerJoined", "tableTrun", "cardPlaced", "emptyBulletFired",
                   "playerEleminated", "gameWinner"}, p \in Players}
    \cup {Payload("suffleCardsForPlayer", t, p, q, Null) : p \in Players, q \in Players}
    \cup {Payload("liarCalled", t, Null, Null, c) : c \in Players}

----------------------------------------------------------------------------
(* GameState and the reducer *)

createInitialGameState(tableId) ==
    [tableId |-> tableId, players |-> <<>>, activePlayers |-> <<>>,
     currentTurn |-> Null, moves |-> <<>>, roundActive |-> FALSE,
     liarCaller |-> Null, lastEvent |-> NoEvent]

Includes(seq, x) == \E i \in 1..Len(seq) : seq[i] = x

Filter(seq, x) == SelectSeq(seq, LAMBDA y : y # x)

\* The playerJoined branch without the alreadyExists test.
JoinAlways(prev, payload) ==
    [prev EXCEPT !.players = Append(prev.players, payload.player),
                 !.activePlayers = Append(prev.activePlayers, payload.player),
                 !.lastEvent = payload]

ReducePlayerJoined(prev, payload) ==
    LET alreadyExists == Includes(prev.players, payload.player)
    IN  [prev EXCEPT !.players = IF alreadyExists THEN prev.players
                                 ELSE Append(prev.players, payload.player),
                     !.activePlayers = IF alreadyExists THEN prev.activePlayers
                                       ELSE Append(prev.activePlayers, payload.player),
                     !.lastEvent = payload]

\* The playerEleminated branch filtering players instead of activePlayers.
EliminateFromPlayers(prev, payload) ==
    [prev EXCEPT !.players = Filter(prev.players, payload.player),
                 !.lastEvent = payload]

ReducePlayerEleminated(prev, payload) ==
    [prev EXCEPT !.activePlayers = Filter(prev.activePlayers, payload.player),
                 !.lastEvent = payload]

\* The roundStarted branch keeping the moves of the round before.
RoundStartedKeepsMoves(prev, payload) ==
    [prev EXCEPT !.roundActive = TRUE, !.currentTurn = Null,
                 !.liarCaller = Null, !.lastEvent = payload]

ReduceRoundStarted(prev, payload) ==
    [prev EXCEPT !.roundActive = TRUE, !.currentTurn = Null,
                 !.moves = <<>>, !.liarCaller = Null, !.lastEvent = payload]

ReduceShuffle(prev, payload) ==
    [prev EXCEPT !.currentTurn = payload.next, !.lastEvent = payload]

\* The tableTrun branch keeping a turn that is already set.
TurnKeepsInferred(prev, payload) ==
    [prev EXCEPT !.currentTurn = IF prev.currentTurn = Null THEN payload.player
                                 ELSE prev.currentTurn,
                 !.lastEvent = payload]

ReduceTableTurn(prev, payload) ==
    [prev EXCEPT !.currentTurn = payload.player, !.lastEvent = payload]

\* The cardPlaced branch dropping a move of the player who moved last.
CardPlacedOncePerPlayer(prev, payload, t) ==
    [prev EXCEPT !.moves = IF prev.moves # <<>>
                              /\ prev.moves[Len(prev.moves)].player = payload.player
                           THEN prev.moves
                           ELSE Append(prev.moves,
                                       [player |-> payload.player, timestamp |-> t]),
                 !.lastEvent = payload]

ReduceCardPlaced(prev, payload, t) ==
    [prev EXCEPT !.moves = Append(prev.moves,
                                  [player |-> payload.player, timestamp |-> t]),
                 !.lastEvent = payload]

ReduceLiarCalled(prev, payload) ==
    [prev EXCEPT !.liarCaller = payload.caller, !.lastEvent = payload]

\* The default branch ending the round on gameOver.
OtherEndsRound(prev, payload) ==
    [prev EXCEPT !.roundActive = IF payload.type = "gameOver" THEN FALSE ELSE @,
                 !.lastEvent = payload]

ReduceOther(prev, payload) == [prev EXCEPT !.lastEvent = payload]

\* The state updater updateGameState hands to setGameState; t is Date.now().
updateGameState(prev, payload, t) ==
    CASE payload.type = "playerJoined" -> ReducePlayerJoined(prev, payload)
      [] payload.type = "roundStarted" -> ReduceRoundStarted(prev, payload)
      [] payload.type = "suffleCardsForPlayer" -> ReduceShuffle(prev, payload)
      [] payload.type = "tableTrun" -> ReduceTableTurn(prev, payload)
      [] payload.type = "cardPlaced" -> ReduceCardPlaced(prev, payload, t)
      [] payload.type = "liarCalled" -> ReduceLiarCalled(prev, payload)
      [] payload.type = "playerEleminated" -> ReducePlayerEleminated(prev, payload)
      [] OTHER -> ReduceOther(prev, payload)

----------------------------------------------------------------------------
(* Log lines and their decoding *)

\* A log line of a transaction.  prefix: the line starts with "Program data: ".
\* form: what the base64 body is to the event coder: "garbage" (decode throws),
\* "unknown" (no event of the IDL: decode returns null) or "event" (an event
\* named name with the data fields below; a missing field is Null).
Line(prefix, form, name, tableId, player, next, caller) ==
    [prefix |-> prefix, form |-> form, name |-> name, tableId |-> tableId,
     player |-> player, next |-> next, caller |-> caller]

TextLine == Line(FALSE, "garbage", Null, Null, Null, Null, Null)
GarbageLine == Line(TRUE, "garbage", Null, Null, Null, Null, Null)
UnknownLine == Line(TRUE, "unknown", Null, Null, Null, Null, Null)
EventLine(name, tableId, player, next, caller) ==
    Line(TRUE, "event", name, tableId, player, next, caller)

\* eventParser.decode(base64Data): "throw", "null" or the decoded event.
EventDecode(line) ==
    CASE line.form = "garbage" -> [status |-> "throw", decoded |-> line]
      [] line.form = "unknown" -> [status |-> "null", decoded |-> line]
      [] OTHER -> [status |-> "ok", decoded |-> line]

\* The payload built by the switch of mapDecodedToPayload for a known name.
PayloadFor(d) ==
    CASE d.name \in {"liarsTableCreated", "roundStarted", "gameOver"} ->
            Payload(d.name, d.tableId, Null, Null, Null)
      [] d.name = "suffleCardsForPlayer" ->
            Payload(d.name, d.tableId, d.player, d.next, Null)
      [] d.name = "liarCalled" ->
            Payload(d.name, d.tableId, Null, Null, d.caller)
      [] OTHER -> Payload(d.name, d.tableId, d.player, Null, Null)

\* mapDecodedToPayload without the table filter.
MapWithoutTableFilter(d, tableId) ==
    IF d.name \notin EventNames THEN [status |-> "null", payload |-> NoEvent]
    ELSE IF d.tableId = Null THEN [status |-> "throw", payload |-> NoEvent]
    ELSE [status |-> "ok", payload |-> PayloadFor(d)]

\* mapDecodedToPayload(decoded, tableId): "null", "throw" (d.tableId.toString()
\* on a missing tableId) or the payload.
mapDecodedToPayload(d, tableId) ==
    IF d.tableId # Null /\ d.tableId # tableId
    THEN [status |-> "null", payload |-> NoEvent]
    ELSE IF d.name \notin EventNames THEN [status |-> "null", payload |-> NoEvent]
    ELSE IF d.tableId = Null THEN [status |-> "throw", payload |-> NoEvent]
    ELSE [status |-> "ok", payload |-> PayloadFor(d)]

\* One iteration of the loop over tx.meta.logMessages: "skip" (continue, or the
\* catch of the try around the line) or "event" (a payload to deliver).
LineStep(line, tableId) ==
    IF ~line.prefix THEN [do |-> "skip", payload |-> NoEvent]
    ELSE LET dec == EventDecode(line)
         IN  IF dec.status # "ok" THEN [do |-> "skip", payload |-> NoEvent]
             ELSE LET m == mapDecodedToPayload(dec.decoded, tableId)
                  IN  IF m.status # "ok" THEN [do |-> "skip", payload |-> NoEvent]
                      ELSE [do |-> "event", payload |-> m.payload]

----------------------------------------------------------------------------
(* The consumers: handleEvent and handleAnimation *)

NoAnimation == [type |-> Null, player |-> Null, timestamp |-> -1]

\* ANIMATION_DURATIONS[type] ?? 1500, in ms.
ANIMATION_DURATIONS(type) ==
    CASE type = "card-placed" -> 1500
      [] type = "liar-called" -> 3000
      [] type = "empty-bullet" -> 2500
      [] type = "player-eliminated" -> 2000
      [] type = "round-started" -> 2000
      [] type = "player-joined" -> 1500
      [] OTHER -> 1500

\* The setTimeout callback of handleAnimation for a trigger: the timestamp of
\* the trigger it closes over, when it is due, and which call of handleEvent
\* (in the order of the calls) set it.
Timer(trigger, t, owner) ==
    [timestamp |-> trigger.timestamp, due |-> t + ANIMATION_DURATIONS(trigger.type),
     owner |-> owner]

AnimationTypeOf(type) ==
    CASE type = "playerJoined" -> "player-joined"
      [] type = "roundStarted" -> "round-started"
      [] type = "cardPlaced" -> "card-placed"
      [] type = "liarCalled" -> "liar-called"
      [] type = "emptyBulletFired" -> "empty-bullet"
      [] type = "playerEleminated" -> "player-eliminated"
      [] OTHER -> Null

LogPlayerOf(ev) ==
    CASE ev.type = "liarCalled" -> ev.caller
      [] ev.type \in {"liarsTableCreated", "roundStarted", "gameOver"} -> Null
      [] OTHER -> ev.player

\* prev.slice(-EventLogKeep)
LastN(seq, n) ==
    IF Len(seq) <= n THEN seq ELSE SubSeq(seq, Len(seq) - n + 1, Len(seq))

\* The React state and the consumers' records, as one value.
View == [gs |-> gameState, log |-> eventLog, anim |-> activeAnimation,
         timers |-> timers, delivered |-> delivered]

\* One decoded event: updateGameState, then handleEvent (event log, animation
\* trigger with its expiry timer, parent callback).  The onCardsShuffled
\* callback of the subscriber has an empty body.
DeliverEvent(v, ev, t, cycle, sig, line) ==
    LET anim == AnimationTypeOf(ev.type)
    IN  [gs |-> updateGameState(v.gs, ev, t),
         log |-> Append(LastN(v.log, EventLogKeep),
                        [type |-> ev.type, player |-> LogPlayerOf(ev), timestamp |-> t]),
         anim |-> IF anim = Null THEN v.anim
                  ELSE [type |-> anim, player |-> LogPlayerOf(ev), timestamp |-> t],
         timers |-> IF anim = Null THEN v.timers
                    ELSE v.timers (+) SetToBag({Timer([type |-> anim, timestamp |-> t], t,
                                                      Len(v.delivered) + 1)}),
         delivered |-> Append(v.delivered,
                              [cycle |-> cycle, sig |-> sig, line |-> line, ev |-> ev])]

\* The loop over the log lines of one fetched transaction, from line i on.
RECURSIVE ProcessLogs(_, _, _, _, _, _)
ProcessLogs(v, logs, i, t, cycle, sig) ==
    IF i > Len(logs) THEN v
    ELSE LET r == LineStep(logs[i], TableId)
         IN  IF r.do = "skip" THEN ProcessLogs(v, logs, i + 1, t, cycle, sig)
             ELSE ProcessLogs(DeliverEvent(v, r.payload, t, cycle, sig, i),
                              logs, i + 1, t, cycle, sig)

----------------------------------------------------------------------------
(* The ledger *)

\* A transaction: err (it failed on chain), hasLogs (meta.logMessages is
\* present) and its log lines.
Tx(err, hasLogs, logs) == [err |-> err, hasLogs |-> hasLogs, logs |-> logs]

TxCreate ==
    Tx(FALSE, TRUE,
       <<TextLine, EventLine("liarsTableCreated", TableId, Null, Null, Null)>>)

\* Lines that decode to nothing, then two events of the table.
TxMixed ==
    Tx(FALSE, TRUE,
       <<TextLine, GarbageLine, UnknownLine,
         EventLine("futureEvent", TableId, "p2", Null, Null),
         EventLine("playerJoined", OtherTable, "p2", Null, Null),
         EventLine("playerJoined", Null, "p2", Null, Null),
         EventLine("playerJoined", TableId, "p1", Null, Null),
         EventLine("cardPlaced", TableId, "p1", Null, Null)>>)

\* A failed transaction (its logs still hold an event).
TxFailed ==
    Tx(TRUE, TRUE, <<EventLine("playerJoined", TableId, "p2", Null, Null)>>)

\* A transaction without log messages.
TxNoLogs == Tx(FALSE, FALSE, <<>>)

\* A transaction none of whose lines decodes to an event of the table.
TxForeign ==
    Tx(FALSE, TRUE,
       <<TextLine, GarbageLine,
         EventLine("roundStarted", OtherTable, Null, Null, Null)>>)

TxChoices == {TxMixed, TxFailed, TxNoLogs, TxForeign}

\* connection.getSignaturesForAddress(tableAddress, {until, limit}): the
\* newest `limit` signatures newer than `until`, newest first.
ListSignatures(ch, until, limit) ==
    LET n == IF Len(ch) - until < limit THEN Len(ch) - until ELSE limit
    IN  [i \in 1..n |-> Len(ch) - i + 1]

Reverse(seq) == [i \in 1..Len(seq) |-> seq[Len(seq) - i + 1]]

----------------------------------------------------------------------------
(* poll() *)

\* One invocation of poll().  pc: "list" (awaiting getSignaturesForAddress),
\* "fetch" (awaiting getTransaction of newSigs[idx]) or "done".  until: the
\* lastSignature read when the listing was requested.  sigs: the signatures
\* listed, newest first.  failed: the signatures whose fetch threw or gave no
\* transaction.  result: how the invocation ended.
PollRec(pc, until, sigs, idx, failed, result) ==
    [pc |-> pc, until |-> until, sigs |-> sigs, idx |-> idx, failed |-> failed,
     result |-> result]

\* poll() up to its first await.
StartPoll ==
    IF ~isActive THEN PollRec("done", lastSignature, <<>>, 0, {}, "inactive")
    ELSE PollRec("list", lastSignature, <<>>, 0, {}, Null)

LimitOf(until) == IF until # 0 THEN PageLimit ELSE BaselineLimit

NewSigs(rec) == Reverse(rec.sigs)

\* The guard at the head of the loop body: the indexes from `from` on whose
\* transaction is fetched.
Fetchable(rec, from, active) ==
    {j \in from..Len(rec.sigs) : ~chain[NewSigs(rec)[j]].err /\ active}

Least(S) == CHOOSE x \in S : \A y \in S : x <= y

\* The loop over newSigs from index `from` up to its next await, or to its end.
ContinueLoop(rec, from, active) ==
    LET F == Fetchable(rec, from, active)
    IN  IF F # {} THEN [rec EXCEPT !.pc = "fetch", !.idx = Least(F)]
        ELSE [rec EXCEPT !.pc = "done", !.idx = 0, !.result = "processed"]

Greatest(S) == CHOOSE x \in S : \A y \in S : x >= y

\* The cursor moved only to the newest signature whose transaction was fetched.
CursorToNewestFetched(cur, rec) ==
    LET fetched == {j \in 1..Len(rec.sigs) :
                        ~chain[rec.sigs[j]].err /\ rec.sigs[j] \notin rec.failed}
    IN  IF fetched = {} THEN cur ELSE Greatest({rec.sigs[j] : j \in fetched})

\* lastSignature after the loop: signatures[0].signature.
CursorAfterBatch(cur, rec) == rec.sigs[1]

\* The cursor forgotten when a listing throws.
CursorResetOnListError(cur) == 0

\* lastSignature after a listing that threw.
CursorAfterListError(cur) == cur

\* A fetch that threw caught by the outer catch: the batch is abandoned.
AbortBatchOnThrow(rec, active) ==
    [rec EXCEPT !.failed = @ \cup {NewSigs(rec)[rec.idx]}, !.pc = "done",
                !.idx = 0, !.result = "fetchError"]

\* The loop after the fetch of newSigs[idx] threw: the inner catch, then the
\* next iteration.
AfterFetchThrow(rec, active) ==
    ContinueLoop([rec EXCEPT !.failed = @ \cup {NewSigs(rec)[rec.idx]}],
                 rec.idx + 1, active)

----------------------------------------------------------------------------
(* State after the subscription effect has run: the initial poll() is at its
   first await and the interval is set. *)

\* localStorage holds no item under the key of this table and wallet.
NoItem == <<>>

Wallet == "W1"           \* the connected wallet
OtherWallet == "W2"      \* any other wallet

\* `liar-cards-${tableId}-${wallet}`
getCardCacheKey(tableId, wallet) == <<"liar-cards", tableId, wallet>>

\* The card-cache keys of the other wallet at this table and of this wallet at
\* the other table.
OtherKeys == {getCardCacheKey(TableId, OtherWallet), getCardCacheKey(OtherTable, Wallet)}

\* A call of a card-cache helper: the helper, the key it computed, the
\* encrypted cards passed and what it returned (<<>> for null and for void).
CacheCall(op, key, encryptedCards, result) ==
    [op |-> op, key |-> key, hand |-> encryptedCards, result |-> result]

NoCall == CacheCall("none", <<>>, <<>>, <<>>)

\* A connection.getSlot() in flight: the run of the effect that started it
\* and whether it is the initial check or one of the interval.
HealthProbe(effect, kind) == [effect |-> effect, kind |-> kind]

Init ==
    /\ chain = <<TxCreate>>
    /\ isActive = TRUE
    /\ intervalOn = TRUE
    /\ lastSignature = 0
    /\ isInitialized = FALSE
    /\ polls = <<PollRec("list", 0, <<>>, 0, {}, Null)>>
    /\ gameState = createInitialGameState(TableId)
    /\ eventLog = <<>>
    /\ activeAnimation = NoAnimation
    /\ timers = EmptyBag
    /\ delivered = <<>>
    /\ now = 0
    /\ runs = <<>>
    /\ myCards = <<>>
    /\ isDecryptingCards = FALSE
    /\ decryptFailed = FALSE
    /\ tableGameState = "lobby"
    /\ myEncryptedCards = <<>>
    /\ playerCards = <<>>
    /\ cardCache = NoItem
    /\ round = 0
    /\ roundsSeen = 0
    /\ cardForm = Null
    /\ otherCache = [k \in OtherKeys |-> NoItem]
    /\ cacheCall = NoCall
    /\ submits = <<>>
    /\ reloads = 0
    /\ debouncer = [timer |-> -1, sinceCall |-> -1, waiting |-> -1, burst |-> 0,
                    sinceFetch |-> -1, coalesced |-> 0]
    /\ health = [status |-> "connected", failCount |-> 0, mounted |-> TRUE,
                 interval |-> TRUE, effect |-> 1, probes |-> <<HealthProbe(1, "initial")>>,
                 streak |-> 0]
    /\ fetcher = [inFlight |-> <<>>, initialFetchDone |-> FALSE, failures |-> 0,
                  started |-> 0, applied |-> 0]
    /\ isShufflingRef = FALSE
    /\ cardHandleMap = {}

SetView(v) ==
    /\ gameState' = v.gs
    /\ eventLog' = v.log
    /\ activeAnimation' = v.anim
    /\ timers' = v.timers
    /\ delivered' = v.delivered

viewVars == <<gameState, eventLog, activeAnimation, timers, delivered>>

\* The end of an invocation's step: the record it is left in, and the cursor
\* assignment after the loop when the loop has ended.
EndStep(p, rec) ==
    /\ polls' = [polls EXCEPT ![p] = rec]
    /\ lastSignature' = IF rec.pc = "done" /\ rec.result = "processed"
                        THEN CursorAfterBatch(lastSignature, rec)
                        ELSE lastSignature

\* The interval fires: poll() runs to its first await.
StartTick(limit) ==
    /\ intervalOn
    /\ Len(polls) < limit
    /\ polls' = Append(polls, StartPoll)
    /\ UNCHANGED <<chain, isActive, intervalOn, lastSignature, isInitialized,
                   viewVars, now>>
    /\ UNCHANGED tableVars
    /\ UNCHANGED serviceVars

Tick == StartTick(MaxPolls)

TickOverlap == StartTick(MaxOverlap)

\* getSignaturesForAddress resolves: poll() runs on to its next await or end.
ListOk(p) ==
    /\ polls[p].pc = "list"
    /\ LET rec == polls[p]
           sigs == ListSignatures(chain, rec.until, LimitOf(rec.until))
       IN  IF sigs = <<>>
           THEN /\ polls' = [polls EXCEPT ![p] = [rec EXCEPT !.pc = "done",
                                                             !.result = "empty"]]
                /\ UNCHANGED <<lastSignature, isInitialized>>
           ELSE IF ~isInitialized
           THEN /\ lastSignature' = sigs[1]
                /\ isInitialized' = TRUE
                /\ polls' = [polls EXCEPT ![p] = [rec EXCEPT !.pc = "done",
                                                             !.sigs = sigs,
                                                             !.result = "baseline"]]
           ELSE /\ EndStep(p, ContinueLoop([rec EXCEPT !.sigs = sigs], 1, isActive))
                /\ UNCHANGED isInitialized
    /\ UNCHANGED <<chain, isActive, intervalOn, viewVars, now>>
    /\ UNCHANGED tableVars
    /\ UNCHANGED serviceVars

\* getSignaturesForAddress rejects: the outer catch.
ListFail(p) ==
    /\ polls[p].pc = "list"
    /\ polls' = [polls EXCEPT ![p] = [@ EXCEPT !.pc = "done", !.result = "listError"]]
    /\ lastSignature' = CursorAfterListError(lastSignature)
    /\ UNCHANGED <<chain, isActive, intervalOn, isInitialized, viewVars, now>>
    /\ UNCHANGED tableVars
    /\ UNCHANGED serviceVars

\* getTransaction resolves with the transaction: its log lines are processed,
\* then the loop runs on.
FetchOk(p) ==
    /\ polls[p].pc = "fetch"
    /\ LET rec == polls[p]
           sig == NewSigs(rec)[rec.idx]
           tx == chain[sig]
       IN  /\ SetView(IF tx.hasLogs THEN ProcessLogs(View, tx.logs, 1, now, p, sig)
                      ELSE View)
           /\ EndStep(p, ContinueLoop(rec, rec.idx + 1, isActive))
    /\ UNCHANGED <<chain, isActive, intervalOn, isInitialized, now>>
    /\ UNCHANGED tableVars
    /\ UNCHANGED serviceVars

\* getTransaction rejects (the inner catch) or resolves with null.
FetchFail(p) ==
    /\ polls[p].pc = "fetch"
    /\ EndStep(p, AfterFetchThrow(polls[p], isActive))
    /\ UNCHANGED <<chain, isActive, intervalOn, isInitialized, viewVars, now>>
    /\ UNCHANGED tableVars
    /\ UNCHANGED serviceVars

\* A transaction on the table address is confirmed.
ConfirmTx ==
    /\ Len(chain) < MaxTx
    /\ \E tx \in TxChoices : chain' = Append(chain, tx)
    /\ UNCHANGED <<polls, isActive, intervalOn, lastSignature, isInitialized,
                   viewVars, now>>
    /\ UNCHANGED tableVars
    /\ UNCHANGED serviceVars

\* The effect's cleanup (unmount, or connection / wallet change).
Stop ==
    /\ isActive
    /\ isActive' = FALSE
    /\ intervalOn' = FALSE
    /\ UNCHANGED <<chain, polls, lastSignature, isInitialized, viewVars, now>>
    /\ UNCHANGED tableVars
    /\ UNCHANGED serviceVars

\* The table id changes: the cleanup, then the reset effect.
StopTableChange ==
    /\ isActive
    /\ isActive' = FALSE
    /\ intervalOn' = FALSE
    /\ gameState' = createInitialGameState(OtherTable)
    /\ eventLog' = <<>>
    /\ activeAnimation' = NoAnimation
    /\ UNCHANGED <<chain, polls, lastSignature, isInitialized, timers, delivered, now>>
    /\ UNCHANGED tableVars
    /\ UNCHANGED serviceVars

\* The pending timer that fires next: the earliest due, and among timers due
\* at the same time the one set first.
NextTimer ==
    CHOOSE t \in BagToSet(timers) :
        \A u \in BagToSet(timers) :
            t.due < u.due \/ (t.due = u.due /\ t.owner <= u.owner)

\* A timeout set by handleAnimation fires when it is due.
AnimationExpire ==
    \E t \in BagToSet(timers) :
        /\ t = NextTimer
        /\ t.due <= now
        /\ timers' = timers (-) SetToBag({t})
        /\ activeAnimation' = IF activeAnimation.timestamp = t.timestamp THEN NoAnimation
                              ELSE activeAnimation
        /\ UNCHANGED <<chain, polls, isActive, intervalOn, lastSignature,
                       isInitialized, gameState, eventLog, delivered, now>>
        /\ UNCHANGED tableVars
        /\ UNCHANGED serviceVars

AdvanceClock ==
    /\ now < MaxTime
    /\ now' = now + 1
    /\ UNCHANGED <<chain, polls, isActive, intervalOn, lastSignature,
                   isInitialized, viewVars>>
    /\ UNCHANGED tableVars
    /\ UNCHANGED serviceVars

\* The steps of the subscription other than the interval's.
Step ==
    \/ \E p \in 1..Len(polls) : ListOk(p)
    \/ \E p \in 1..Len(polls) : ListFail(p)
    \/ \E p \in 1..Len(polls) : FetchOk(p)
    \/ \E p \in 1..Len(polls) : FetchFail(p)
    \/ ConfirmTx
    \/ Stop
    \/ StopTableChange

Next == Tick \/ Step

\* The poller and its consumers.  The clock stands still and the animation
\* timers stay pending: neither is read by poll().
Spec == Init /\ [][Next]_vars

NextOverlap == TickOverlap \/ Step

\* The same, with up to MaxOverlap invocations of poll().
SpecOverlap == Init /\ [][NextOverlap]_vars

----------------------------------------------------------------------------
(* The poller when every RPC call succeeds and answers before the next tick,
   on a table address that receives more transactions between two ticks than
   one listing returns. *)

\* Transactions on the table address: the one that created the table and one
\* more than a page of the listing.
MaxLedger == PageLimit + 2

\* The interval fires after the previous poll() has ended.
TickAfterPollEnds ==
    /\ \A p \in 1..Len(polls) : polls[p].pc = "done"
    /\ StartTick(MaxOverlap)

\* A transaction of the table that emits events is confirmed.
ConfirmTableTx ==
    /\ Len(chain) < MaxLedger
    /\ chain' = Append(chain, TxMixed)
    /\ UNCHANGED <<polls, isActive, intervalOn, lastSignature, isInitialized,
                   viewVars, now>>
    /\ UNCHANGED tableVars
    /\ UNCHANGED serviceVars

NextBurst ==
    \/ TickAfterPollEnds
    \/ \E p \in 1..Len(polls) : ListOk(p)
    \/ \E p \in 1..Len(polls) : FetchOk(p)
    \/ ConfirmTableTx

SpecBurst == Init /\ [][NextBurst]_vars

----------------------------------------------------------------------------
(* handleEvent, handleAnimation and the expiry timers with the clock in ms:
   events handled in the same millisecond, one millisecond apart or a second
   apart, and timers that fire when they are due. *)

MaxEvents == 2       \* calls of handleEvent
MaxClockMs == 2000   \* latest instant of a call of handleEvent

\* Milliseconds that pass between two calls of handleEvent, when no timer is
\* due before.
ElapsedChoices == {1, 1000}

\* handleEvent(event) called at the current instant.
HandleEventNow(e) ==
    /\ Len(delivered) < MaxEvents
    /\ SetView(DeliverEvent(View, e, now, 0, 0, 0))
    /\ UNCHANGED <<chain, polls, isActive, intervalOn, lastSignature, isInitialized, now>>
    /\ UNCHANGED tableVars
    /\ UNCHANGED serviceVars

\* Time passes up to, at most, the instant the next timer is due.
Elapse(d) ==
    /\ Len(delivered) < MaxEvents
    /\ d = 1 => \E t \in BagToSet(timers) : t.timestamp = now
    /\ now + d <= MaxClockMs
    /\ timers # EmptyBag => now + d <= NextTimer.due
    /\ now' = now + d
    /\ UNCHANGED <<chain, polls, isActive, intervalOn, lastSignature,
                   isInitialized, viewVars>>
    /\ UNCHANGED tableVars
    /\ UNCHANGED serviceVars

\* Time passes until the next timer is due.
ElapseToExpiry ==
    /\ timers # EmptyBag
    /\ now < NextTimer.due
    /\ now' = NextTimer.due
    /\ UNCHANGED <<chain, polls, isActive, intervalOn, lastSignature,
                   isInitialized, viewVars>>
    /\ UNCHANGED tableVars
    /\ UNCHANGED serviceVars

NextAnimation ==
    \/ \E e \in EventsOf(TableId) : HandleEventNow(e)
    \/ \E d \in ElapsedChoices : Elapse(d)
    \/ ElapseToExpiry
    \/ AnimationExpire

SpecAnimation == Init /\ [][NextAnimation]_vars

----------------------------------------------------------------------------
(* The reducer alone: decoded events applied in any order, with duplicates. *)

ApplyEvent(e) ==
    /\ e.type = "cardPlaced" => Len(gameState.moves) < MaxMoves
    /\ gameState' = updateGameState(gameState, e, now)
    /\ UNCHANGED <<chain, polls, isActive, intervalOn, lastSignature,
                   isInitialized, eventLog, activeAnimation, timers, delivered, now>>
    /\ UNCHANGED tableVars
    /\ UNCHANGED serviceVars

NextReducer ==
    \/ \E e \in EventsOf(TableId) : ApplyEvent(e)
    \/ AdvanceClock

SpecReducer == Init /\ [][NextReducer]_vars

\* The reset effect run when the table id changes.
ResetOnTableChange ==
    /\ \E t \in {TableId, OtherTable} \ {gameState.tableId} :
            gameState' = createInitialGameState(t)
    /\ eventLog' = <<>>
    /\ activeAnimation' = NoAnimation
    /\ UNCHANGED <<chain, polls, isActive, intervalOn, lastSignature,
                   isInitialized, timers, delivered, now>>
    /\ UNCHANGED tableVars
    /\ UNCHANGED serviceVars

NextTable ==
    \/ \E e \in EventsOf(TableId) : ApplyEvent(e)
    \/ ResetOnTableChange

\* The reducer and the reset of the view on a table change, at one instant of
\* the clock.
SpecTable == Init /\ [][NextTable]_vars

----------------------------------------------------------------------------
(* useTable: the encrypted hand, the card cache and decryptMyCards *)

\* The shapes of a deserialised Euint128 that extractHandle reads: an object
\* with _bn whose toString gives the digits, the tuple struct { "0": BN }, and
\* the array [BN].
Forms == {"bn", "tuple", "array"}

\* An Euint128 with handle n, as Anchor hands it over.
Euint128(form, n) == [form |-> form, n |-> n]

extractHandle(euint128) ==
    IF euint128.form \in {"bn", "tuple", "array"} THEN euint128.n ELSE 0

\* x.toString(): the digits of the handle, or "[object Object]" for the tuple
\* struct, which is a plain object.
toStringOf(euint128) ==
    IF euint128.form = "tuple" THEN [literal |-> "[object Object]", digits |-> 0]
    ELSE [literal |-> "", digits |-> euint128.n]

\* The encrypted card i of the hand dealt in round r.
EncryptedCard(r, i, form) ==
    [shape |-> Euint128(form, 100 * r + 2 * i),
     value |-> Euint128(form, 100 * r + 2 * i + 1)]

\* player.cards after n cards were dealt in round r.
HandOf(r, n, form) == [i \in 1..n |-> EncryptedCard(r, i, form)]

\* The plaintext the decrypt service returns for a handle.
Plaintext(h) == IF h % 2 = 0 THEN (h \div 2) % 4 ELSE ((h \div 2) % 13) + 1

\* The DecryptedCard built from the result of decrypt([shape, value]).
DecryptedCardOf(card) ==
    [shape |-> Plaintext(extractHandle(card.shape)),
     value |-> Plaintext(extractHandle(card.value))]

\* The "shape:value" texts of the cards, which the code joins with "|".
getEncryptedFingerprint(encryptedCards) ==
    [i \in 1..Len(encryptedCards) |->
        <<toStringOf(encryptedCards[i].shape), toStringOf(encryptedCards[i].value)>>]

\* loadCachedCards: the cards returned (<<>> for null; cards are returned only
\* when there is at least one) and the item left in localStorage.
\* A load that never finds the entry.
LoadAlwaysMisses(item, encryptedCards) == [cards |-> <<>>, item |-> NoItem]

loadCachedCards(item, encryptedCards) ==
    IF item = NoItem THEN [cards |-> <<>>, item |-> NoItem]
    ELSE IF item[1].fingerprint = getEncryptedFingerprint(encryptedCards)
            /\ Len(item[1].cards) > 0
    THEN [cards |-> item[1].cards, item |-> item]
    ELSE [cards |-> <<>>, item |-> NoItem]

\* The item saveCachedCards stores.
\* The item written before the last card was pushed to the list.
SaveBeforeLastCard(encryptedCards, cards) ==
    <<[fingerprint |-> getEncryptedFingerprint(encryptedCards),
       cards |-> SubSeq(cards, 1, Len(cards) - 1)]>>

saveCachedCards(encryptedCards, cards) ==
    <<[fingerprint |-> getEncryptedFingerprint(encryptedCards), cards |-> cards]>>

\* One decryptMyCards() invocation: where it is suspended (pc), player.cards
\* as it fetched them, the loop index i (from 1), its local decryptedCards,
\* and the requests it has made of the chain and of the decrypt service. An
\* invocation that has returned keeps its outcome (pc) only.
RunRec(pc, cards, idx, decryptedCards, ops) ==
    [pc |-> pc, cards |-> cards, idx |-> idx, decryptedCards |-> decryptedCards,
     ops |-> ops]

RunEnded == {"done", "failed", "empty"}

\* decryptMyCards up to its first await: the player account is requested.
StartRun == RunRec("fetch", <<>>, 0, <<>>, <<"fetchPlayer">>)

\* An invocation that has returned: its locals are gone.
Returned(run) == RunRec(run.pc, <<>>, 0, <<>>, <<>>)

\* The catch block: the invocation returns [].
Thrown(run) == [run EXCEPT !.pc = "failed"]

\* The player account arrived: an empty hand returns [], otherwise the
\* allowance accounts are derived and the grant transaction is requested.
AfterFetchPlayer(run, cards) ==
    IF cards = <<>> THEN [run EXCEPT !.pc = "empty"]
    ELSE [run EXCEPT !.pc = "grant", !.cards = cards, !.ops = Append(@, "buildGrant")]

\* The grant transaction was built, signed and sent.
AfterGrantSent(run) == [run EXCEPT !.pc = "confirm", !.ops = Append(@, "sendGrant")]

\* The decryption loop entered as soon as the grant is confirmed.
DecryptWithoutSettle(run) ==
    [run EXCEPT !.pc = "decrypt", !.idx = 1,
                !.ops = @ \o <<"grantConfirmed", "decrypt">>]

\* confirmWithTimeout resolved: the settle timer is set.
AfterGrantConfirmed(run) ==
    [run EXCEPT !.pc = "settle", !.ops = Append(@, "grantConfirmed")]

\* The settle timer fired: the first card is requested.
AfterSettle(run) ==
    [run EXCEPT !.pc = "decrypt", !.idx = 1, !.ops = @ \o <<"settled", "decrypt">>]

\* `${handle of shape}:${handle of value}`
HandleKey(card) == <<extractHandle(card.shape), extractHandle(card.value)>>

\* cardHandleMap.current.set(key, decryptedCard)
MapSet(map, key, decryptedCard) ==
    {e \in map : e.key # key} \cup {[key |-> key, card |-> decryptedCard]}

\* cardHandleMap.current.get(key) ?? null, as <<card>> or <<>>.
MapGet(map, key) ==
    IF \E e \in map : e.key = key
    THEN <<(CHOOSE e \in map : e.key = key).card>>
    ELSE <<>>

\* decrypt resolved for card i: the card is pushed and the next one is
\* requested, or the loop ends.
AfterDecrypt(run) ==
    LET pushed == Append(run.decryptedCards, DecryptedCardOf(run.cards[run.idx]))
    IN  IF run.idx < Len(run.cards)
        THEN [run EXCEPT !.decryptedCards = pushed, !.idx = @ + 1,
                         !.ops = Append(@, "decrypt")]
        ELSE [run EXCEPT !.decryptedCards = pushed, !.pc = "done"]

\* A failed card skipped and the loop carried on with the next one.
SkipFailedCard(run) ==
    IF run.idx < Len(run.cards)
    THEN [run EXCEPT !.idx = @ + 1, !.ops = Append(@, "decrypt")]
    ELSE [run EXCEPT !.pc = "done"]

\* decrypt rejected for card i.
AfterDecryptThrow(run) == Thrown(run)

\* The end of a step of invocation r: the catch and finally blocks run when
\* the invocation has returned.
EndRunStep(r, run) ==
    /\ runs' = [runs EXCEPT ![r] = IF run.pc \in RunEnded THEN Returned(run) ELSE run]
    /\ decryptFailed' = IF run.pc = "failed" THEN TRUE ELSE decryptFailed
    /\ isDecryptingCards' = IF run.pc \in RunEnded THEN FALSE ELSE isDecryptingCards

\* decryptMyCards() is called: setIsDecryptingCards(true) and the first await.
InvokeDecryptUpTo(limit) ==
    /\ Len(runs) < limit
    /\ runs' = Append(runs, StartRun)
    /\ isDecryptingCards' = TRUE

InvokeDecrypt == InvokeDecryptUpTo(MaxRuns)

\* A consumer of the hook calls the decryptMyCards it returns.
CallDecryptUpTo(limit) ==
    /\ InvokeDecryptUpTo(limit)
    /\ UNCHANGED <<myCards, decryptFailed, tableGameState, myEncryptedCards,
                   playerCards, cardCache, round, roundsSeen, cardForm>>
    /\ UNCHANGED eventVars
    /\ UNCHANGED serviceVars

CallDecrypt == CallDecryptUpTo(MaxRuns)

\* The effect that loads the cached cards or triggers decryption.
AutoDecryptUpTo(limit) ==
    /\ myEncryptedCards # <<>>
    /\ myCards = <<>>
    /\ ~isDecryptingCards
    /\ ~decryptFailed
    /\ tableGameState = "playing"
    /\ LET cached == loadCachedCards(cardCache, myEncryptedCards)
       IN  /\ cardCache' = cached.item
           /\ IF cached.cards # <<>>
              THEN /\ myCards' = cached.cards
                   /\ UNCHANGED <<runs, isDecryptingCards>>
              ELSE /\ InvokeDecryptUpTo(limit)
                   /\ UNCHANGED myCards
    /\ UNCHANGED <<decryptFailed, tableGameState, myEncryptedCards, playerCards,
                   round, roundsSeen, cardForm>>
    /\ UNCHANGED eventVars
    /\ UNCHANGED serviceVars

AutoDecrypt == AutoDecryptUpTo(MaxRuns)

\* The effect that clears myCards when the on-chain cards are gone.
StaleClear ==
    /\ tableGameState = "playing"
    /\ myEncryptedCards = <<>>
    /\ myCards # <<>>
    /\ ~isDecryptingCards
    /\ myCards' = <<>>
    /\ UNCHANGED <<runs, isDecryptingCards, decryptFailed, tableGameState,
                   myEncryptedCards, playerCards, cardCache, round, roundsSeen, cardForm>>
    /\ UNCHANGED eventVars
    /\ UNCHANGED serviceVars

FetchPlayerOk(r) ==
    /\ runs[r].pc = "fetch"
    /\ EndRunStep(r, AfterFetchPlayer(runs[r], playerCards))
    /\ UNCHANGED <<myCards, tableGameState, myEncryptedCards, playerCards,
                   cardCache, round, roundsSeen, cardForm>>
    /\ UNCHANGED eventVars
    /\ UNCHANGED serviceVars

GrantSent(r) ==
    /\ runs[r].pc = "grant"
    /\ EndRunStep(r, AfterGrantSent(runs[r]))
    /\ UNCHANGED <<myCards, tableGameState, myEncryptedCards, playerCards,
                   cardCache, round, roundsSeen, cardForm>>
    /\ UNCHANGED eventVars
    /\ UNCHANGED serviceVars

GrantConfirmed(r) ==
    /\ runs[r].pc = "confirm"
    /\ EndRunStep(r, AfterGrantConfirmed(runs[r]))
    /\ UNCHANGED <<myCards, tableGameState, myEncryptedCards, playerCards,
                   cardCache, round, roundsSeen, cardForm>>
    /\ UNCHANGED eventVars
    /\ UNCHANGED serviceVars

SettleElapsed(r) ==
    /\ runs[r].pc = "settle"
    /\ EndRunStep(r, AfterSettle(runs[r]))
    /\ UNCHANGED <<myCards, tableGameState, myEncryptedCards, playerCards,
                   cardCache, round, roundsSeen, cardForm>>
    /\ UNCHANGED eventVars
    /\ UNCHANGED serviceVars

\* An await before the decryption loop rejects: the account fetch, building,
\* signing or sending the grant, or its confirmation (error or timeout).
RunThrows(r) ==
    /\ runs[r].pc \in {"fetch", "grant", "confirm"}
    /\ EndRunStep(r, Thrown(runs[r]))
    /\ UNCHANGED <<myCards, tableGameState, myEncryptedCards, playerCards,
                   cardCache, round, roundsSeen, cardForm>>
    /\ UNCHANGED eventVars
    /\ UNCHANGED serviceVars

DecryptOk(r) ==
    /\ runs[r].pc = "decrypt"
    /\ LET run == AfterDecrypt(runs[r])
       IN  /\ EndRunStep(r, run)
           /\ myCards' = IF Len(run.decryptedCards) > Len(runs[r].decryptedCards)
                         THEN Append(myCards,
                                     run.decryptedCards[Len(run.decryptedCards)])
                         ELSE myCards
           /\ cardCache' = IF run.pc = "done"
                           THEN saveCachedCards(run.cards, run.decryptedCards)
                           ELSE cardCache
           /\ cardHandleMap' = MapSet(cardHandleMap, HandleKey(runs[r].cards[runs[r].idx]),
                                      DecryptedCardOf(runs[r].cards[runs[r].idx]))
    /\ UNCHANGED <<tableGameState, myEncryptedCards, playerCards, round, roundsSeen, cardForm>>
    /\ UNCHANGED eventVars
    /\ UNCHANGED <<otherCache, cacheCall, submits, reloads, debouncer, health, fetcher,
                   isShufflingRef>>

DecryptFails(r) ==
    /\ runs[r].pc = "decrypt"
    /\ LET run == AfterDecryptThrow(runs[r])
       IN  /\ EndRunStep(r, run)
           /\ cardCache' = IF run.pc = "done"
                           THEN saveCachedCards(run.cards, run.decryptedCards)
                           ELSE cardCache
    /\ UNCHANGED <<myCards, tableGameState, myEncryptedCards, playerCards,
                   round, roundsSeen, cardForm>>
    /\ UNCHANGED eventVars
    /\ UNCHANGED serviceVars

\* The sizes of the hand a round leaves in the player account: no card (the
\* player is out, or the shuffle has not dealt yet) or a full hand.
HandSizes == {0, MaxHand}

\* The chain deals a round: the player account holds n new encrypted cards.
DealRound(n, form) ==
    /\ round < MaxRounds
    /\ cardForm \in {Null, form}
    /\ round' = round + 1
    /\ cardForm' = form
    /\ playerCards' = HandOf(round + 1, n, form)
    /\ UNCHANGED <<runs, myCards, isDecryptingCards, decryptFailed, tableGameState,
                   myEncryptedCards, cardCache, roundsSeen>>
    /\ UNCHANGED eventVars
    /\ UNCHANGED serviceVars

\* handleGameEvent for roundStarted.
RoundStartedEvent ==
    /\ roundsSeen < round
    /\ roundsSeen' = roundsSeen + 1
    /\ tableGameState' = "playing"
    /\ myCards' = <<>>
    /\ decryptFailed' = FALSE
    /\ cardCache' = NoItem
    /\ UNCHANGED <<runs, isDecryptingCards, myEncryptedCards, playerCards, round, cardForm>>
    /\ UNCHANGED eventVars
    /\ UNCHANGED serviceVars

\* fetchTable: tableData and the game state are taken from the chain.
FetchTable ==
    /\ myEncryptedCards' = playerCards
    /\ tableGameState' = IF round > 0 THEN "playing" ELSE "lobby"
    /\ UNCHANGED <<runs, myCards, isDecryptingCards, decryptFailed, playerCards,
                   cardCache, round, roundsSeen, cardForm>>
    /\ UNCHANGED eventVars
    /\ UNCHANGED serviceVars

RunStep(r) ==
    \/ FetchPlayerOk(r)
    \/ GrantSent(r)
    \/ GrantConfirmed(r)
    \/ SettleElapsed(r)
    \/ RunThrows(r)
    \/ DecryptOk(r)
    \/ DecryptFails(r)

NextPipeline ==
    \/ AutoDecrypt
    \/ StaleClear
    \/ \E r \in 1..Len(runs) : RunStep(r)
    \/ \E n \in HandSizes, form \in Forms : DealRound(n, form)
    \/ RoundStartedEvent
    \/ FetchTable

\* The decryption pipeline triggered by the effect of useTable alone, with the
\* rounds dealt on chain and the refetch of the table.
SpecPipeline == Init /\ [][NextPipeline]_vars

NextReentry == NextPipeline \/ CallDecrypt

\* The same, where the consumers of the hook call decryptMyCards as well.
SpecReentry == Init /\ [][NextReentry]_vars

\* Invocations of decryptMyCards where the table page, which calls it from an
\* effect of its own, has started one beside the hook's.
MaxTriggerRuns == MaxRuns + 1

\* The effect of the table page: it tests the values of the same render as
\* the effect of the hook and runs right after it, when the invocation the
\* hook has started is at its first await.
PageAutoDecrypt(limit) ==
    /\ tableGameState = "playing"
    /\ myEncryptedCards # <<>>
    /\ myCards = <<>>
    /\ ~decryptFailed
    /\ Len(runs) >= 1
    /\ runs[Len(runs)] = StartRun
    /\ \A r \in 1..(Len(runs) - 1) : runs[r] # StartRun
    /\ CallDecryptUpTo(limit)

NextTrigger ==
    \/ AutoDecryptUpTo(MaxTriggerRuns)
    \/ PageAutoDecrypt(MaxTriggerRuns)
    \/ StaleClear
    \/ \E r \in 1..Len(runs) : RunStep(r)
    \/ \E n \in HandSizes, form \in Forms : DealRound(n, form)
    \/ RoundStartedEvent
    \/ FetchTable

\* The automatic trigger of the hook beside the calls of the table page.
SpecTrigger == Init /\ [][NextTrigger]_vars

----------------------------------------------------------------------------
(* The page loaded again: the hook starts from its useState initialisers
   while localStorage and the chain are as they were. *)

MaxReloads == 1      \* page loads after the first

\* The page is loaded again: every invocation in flight is gone with the old
\* page, the state of the hook is initial, and the roundStarted events of the
\* rounds dealt so far are behind the baseline of the new subscription.
Reload ==
    /\ reloads < MaxReloads
    /\ reloads' = reloads + 1
    /\ runs' = <<>>
    /\ myCards' = <<>>
    /\ isDecryptingCards' = FALSE
    /\ decryptFailed' = FALSE
    /\ tableGameState' = "lobby"
    /\ myEncryptedCards' = <<>>
    /\ roundsSeen' = round
    /\ cardHandleMap' = {}
    /\ UNCHANGED <<playerCards, cardCache, round, cardForm>>
    /\ UNCHANGED <<otherCache, cacheCall, submits, debouncer, health, fetcher, isShufflingRef>>
    /\ UNCHANGED eventVars

NextReload == NextPipeline \/ Reload

SpecReload == Init /\ [][NextReload]_vars

----------------------------------------------------------------------------
(* placeCards on its path to `return true`: the transaction confirmed, the
   player account fetched again, the revealed hand rebuilt from cardHandleMap
   and the table fetched. *)

\* The cards left in the player account when the cards at the picked
\* positions are taken out of it, the others keeping their order.
RemainingAfter(cards, picked) ==
    LET kept == SelectSeq([i \in 1..Len(cards) |-> i], LAMBDA i : i \notin picked)
    IN  [k \in 1..Len(kept) |-> cards[kept[k]]]

\* freshPlayer.cards.map(card => cardHandleMap.current.get(key) ?? null)
\*                  .filter(Boolean)
RebuildHand(cards, map) ==
    LET looked == [i \in 1..Len(cards) |-> MapGet(map, HandleKey(cards[i]))]
        found == SelectSeq(looked, LAMBDA x : x # <<>>)
    IN  [k \in 1..Len(found) |-> found[k][1]]

\* placeCards(pickedIndices) that returns true.
PlaceCards(picked) ==
    /\ picked # {}
    /\ playerCards # <<>>
    /\ picked \subseteq 1..Len(playerCards)
    /\ playerCards' = RemainingAfter(playerCards, picked)
    /\ myCards' = RebuildHand(playerCards', cardHandleMap)
    /\ myEncryptedCards' = playerCards'
    /\ tableGameState' = IF round > 0 THEN "playing" ELSE "lobby"
    /\ UNCHANGED <<runs, isDecryptingCards, decryptFailed, cardCache, round, roundsSeen,
                   cardForm>>
    /\ UNCHANGED eventVars
    /\ UNCHANGED serviceVars

NextPlace ==
    \/ NextReload
    \/ \E picked \in SUBSET (1..MaxHand) : PlaceCards(picked)

\* The decryption pipeline, the page loaded again and cards placed.
SpecPlace == Init /\ [][NextPlace]_vars

----------------------------------------------------------------------------
(* debouncedFetchTable: every call clears the pending timer and sets a new
   one of 400 ms whose callback starts fetchTable(false). Times are in ms and
   pass in steps of TickMs; a timer that is due fires before more time
   passes. The fields of debouncer:
     timer      ms left on the timer of fetchDebounceRef, -1 when none is pending
     sinceCall  ms since the last call of debouncedFetchTable, -1 before the first
     waiting    ms since the oldest call not yet followed by a fetch, -1 when none
     burst      calls since the last fetch the timer started
     sinceFetch ms since the last fetch the timer started, -1 before the first
     coalesced  the calls that the last fetch the timer started stood for
   Times and counts stop growing at their bounds. *)

DebounceMs == 400    \* the delay passed to setTimeout
TickMs == 100        \* the step in which time passes
MaxWaitMs == 1200    \* where waiting stops growing
MaxBurst == 3        \* where burst stops growing

\* t ms later, for a time that is -1 while nothing is timed and stops at cap.
Later(t, cap) == IF t = -1 THEN -1 ELSE IF t + TickMs > cap THEN cap ELSE t + TickMs

\* The debouncer when a call leaves a timer that is already pending alone.
KeepTimer(d) ==
    [d EXCEPT !.timer = IF @ = -1 THEN DebounceMs ELSE @,
              !.sinceCall = 0,
              !.waiting = IF @ = -1 THEN 0 ELSE @,
              !.burst = IF @ < MaxBurst THEN @ + 1 ELSE @]

\* if (fetchDebounceRef.current) clearTimeout(...); setTimeout(..., 400)
debouncedFetchTable(d) ==
    [d EXCEPT !.timer = DebounceMs,
              !.sinceCall = 0,
              !.waiting = IF @ = -1 THEN 0 ELSE @,
              !.burst = IF @ < MaxBurst THEN @ + 1 ELSE @]

DebounceRest ==
    /\ UNCHANGED <<otherCache, cacheCall, submits, reloads, health, fetcher, isShufflingRef, cardHandleMap>>
    /\ UNCHANGED tableVars
    /\ UNCHANGED eventVars

\* handleGameEvent (or onRefetchTable) calls debouncedFetchTable().
Schedule ==
    /\ debouncer' = debouncedFetchTable(debouncer)
    /\ DebounceRest

\* The timer fires: its callback starts fetchTable(false).
DebounceFires ==
    /\ debouncer.timer = 0
    /\ debouncer' = [debouncer EXCEPT !.timer = -1, !.waiting = -1, !.burst = 0,
                                      !.sinceFetch = 0, !.coalesced = debouncer.burst]
    /\ DebounceRest

\* TickMs pass with no timer due.
DebounceTick ==
    /\ debouncer.timer # 0
    /\ debouncer' = [debouncer EXCEPT
                        !.timer = IF @ = -1 THEN -1 ELSE @ - TickMs,
                        !.sinceCall = Later(@, DebounceMs),
                        !.waiting = Later(@, MaxWaitMs),
                        !.sinceFetch = Later(@, DebounceMs)]
    /\ DebounceRest

NextDebounce == Schedule \/ DebounceFires \/ DebounceTick

SpecDebounce == Init /\ [][NextDebounce]_vars

\* Time passes and a due timer fires; nothing obliges the events to stop.
SpecDebounceFair ==
    /\ SpecDebounce
    /\ WF_vars(DebounceTick)
    /\ WF_vars(DebounceFires)

----------------------------------------------------------------------------
(* useConnectionStatus: the effect pings the RPC with getSlot() once and then
   on every tick of its interval; its cleanup clears the interval. The fields
   of health:
     status     React state status
     failCount  failCountRef.current
     mounted    whether the component using the hook is mounted
     interval   whether the interval of the current run of the effect is set
     effect     the number of the current run of the effect
     probes     the getSlot() calls in flight
     streak     the failed probes since the last probe that succeeded, in the
                order in which their results arrived *)

MaxProbes == 2       \* getSlot() calls in flight at once
MaxFails == 3        \* where failCountRef and streak stop growing
MaxEffects == 2      \* runs of the effect (one more for every new connection)

\* The sequence without its element i.
RemoveAt(seq, i) == [k \in 1..(Len(seq) - 1) |-> IF k < i THEN seq[k] ELSE seq[k + 1]]

\* setStatus(status): React drops the update of a component that is unmounted.
setStatus(h, status) == IF h.mounted THEN [h EXCEPT !.status = status] ELSE h

\* .then of a probe: the initial check and the interval's set the same.
AfterProbeOk(h, probe) == [setStatus(h, "connected") EXCEPT !.failCount = 0]

\* .catch of a probe.
AfterProbeFail(h, probe) ==
    IF probe.kind = "initial"
    THEN [setStatus(h, "disconnected") EXCEPT !.failCount = 1]
    ELSE LET count == h.failCount + 1
         IN  [setStatus(h, IF count >= 2 THEN "disconnected" ELSE "reconnecting")
                 EXCEPT !.failCount = count]

HealthRest ==
    /\ UNCHANGED <<otherCache, cacheCall, submits, reloads, debouncer, fetcher, isShufflingRef, cardHandleMap>>
    /\ UNCHANGED tableVars
    /\ UNCHANGED eventVars

\* The interval ticks: another getSlot() is sent.
HealthTick ==
    /\ health.interval
    /\ Len(health.probes) < MaxProbes
    /\ health' = [health EXCEPT !.probes = Append(@, HealthProbe(health.effect, "tick"))]
    /\ HealthRest

\* A getSlot() resolves.
ProbeOk(i) ==
    /\ health' = [AfterProbeOk(health, health.probes[i]) EXCEPT
                     !.probes = RemoveAt(@, i), !.streak = 0]
    /\ HealthRest

\* A getSlot() rejects.
ProbeFail(i) ==
    /\ health.failCount < MaxFails
    /\ health' = [AfterProbeFail(health, health.probes[i]) EXCEPT
                     !.probes = RemoveAt(@, i),
                     !.streak = IF @ < MaxFails THEN @ + 1 ELSE @]
    /\ HealthRest

\* The component is unmounted: the cleanup of the effect clears the interval.
HealthUnmount ==
    /\ health.mounted
    /\ health' = [health EXCEPT !.mounted = FALSE, !.interval = FALSE]
    /\ HealthRest

\* useConnection gives a new connection: the cleanup clears the interval and
\* the effect runs again, with its initial check and a new interval.
ConnectionChange ==
    /\ health.mounted
    /\ health.effect < MaxEffects
    /\ Len(health.probes) < MaxProbes
    /\ health' = [health EXCEPT
                     !.effect = @ + 1,
                     !.probes = Append(@, HealthProbe(health.effect + 1, "initial"))]
    /\ HealthRest

NextHealth ==
    \/ HealthTick
    \/ \E i \in 1..Len(health.probes) : ProbeOk(i)
    \/ \E i \in 1..Len(health.probes) : ProbeFail(i)
    \/ HealthUnmount
    \/ ConnectionChange

SpecHealth == Init /\ [][NextHealth]_vars

----------------------------------------------------------------------------
(* The table view kept up to date: the fetch on mount, the roundStarted
   handler that schedules a debounced fetch, and fetchTable as the steps of
   its awaits: the read of the accounts, then the setters, or the catch. The
   fields of fetcher:
     inFlight          the fetchTable() calls in flight, each with what it read
     initialFetchDone  initialFetchDone.current
     failures          the RPC calls of fetchTable that failed so far
     started           the fetchTable() calls made so far
     applied           which call, in the order of the calls, wrote the view
                       last (0 before any has) *)

MaxRpcFailures == 1  \* RPC calls of fetchTable that fail before all succeed

\* The n-th fetchTable() call, which has not read the accounts yet.
StartedFetch(n) == [read |-> <<>>, started |-> n]

\* What the table and player accounts hold.
OnChain == [round |-> round, cards |-> playerCards]

\* setGameState of fetchTable for a table read from the chain.
GameStateOf(table) == IF table.round > 0 THEN "playing" ELSE "lobby"

SyncRest ==
    /\ UNCHANGED <<otherCache, cacheCall, submits, reloads, health, isShufflingRef, cardHandleMap>>
    /\ UNCHANGED eventVars

\* The effect that fetches on mount: fetchTable(true).
MountFetch ==
    /\ ~fetcher.initialFetchDone
    /\ fetcher' = [fetcher EXCEPT !.initialFetchDone = TRUE,
                                  !.inFlight = Append(@, StartedFetch(fetcher.started + 1)),
                                  !.started = @ + 1]
    /\ UNCHANGED debouncer
    /\ UNCHANGED tableVars
    /\ SyncRest

\* handleGameEvent for roundStarted, with its debouncedFetchTable().
HandleRoundStarted ==
    /\ roundsSeen < round
    /\ roundsSeen' = roundsSeen + 1
    /\ tableGameState' = "playing"
    /\ myCards' = <<>>
    /\ decryptFailed' = FALSE
    /\ cardCache' = NoItem
    /\ debouncer' = debouncedFetchTable(debouncer)
    /\ UNCHANGED <<runs, isDecryptingCards, myEncryptedCards, playerCards, round, cardForm>>
    /\ UNCHANGED fetcher
    /\ SyncRest

\* The timer of the debouncer fires and its callback calls fetchTable(false).
DebounceStartsFetch ==
    /\ debouncer.timer = 0
    /\ debouncer' = [debouncer EXCEPT !.timer = -1, !.waiting = -1, !.burst = 0,
                                      !.sinceFetch = 0, !.coalesced = debouncer.burst]
    /\ fetcher' = [fetcher EXCEPT !.inFlight = Append(@, StartedFetch(fetcher.started + 1)),
                                  !.started = @ + 1]
    /\ UNCHANGED tableVars
    /\ SyncRest

\* The accounts are read for a fetchTable() call.
FetchReads(i) ==
    /\ fetcher.inFlight[i].read = <<>>
    /\ fetcher' = [fetcher EXCEPT !.inFlight[i].read = <<OnChain>>]
    /\ UNCHANGED debouncer
    /\ UNCHANGED tableVars
    /\ SyncRest

\* A fetchTable() call goes on after its last await: setTableData and
\* setGameState with what it read.
FetchApplies(i) ==
    /\ fetcher.inFlight[i].read # <<>>
    /\ myEncryptedCards' = fetcher.inFlight[i].read[1].cards
    /\ tableGameState' = GameStateOf(fetcher.inFlight[i].read[1])
    /\ fetcher' = [fetcher EXCEPT !.inFlight = RemoveAt(@, i),
                                  !.applied = fetcher.inFlight[i].started]
    /\ UNCHANGED <<runs, myCards, isDecryptingCards, decryptFailed, playerCards,
                   cardCache, round, roundsSeen, cardForm>>
    /\ UNCHANGED debouncer
    /\ SyncRest

\* An RPC call of a fetchTable() call rejects: the catch sets the error and
\* the call returns.
FetchRejects(i) ==
    /\ fetcher.failures < MaxRpcFailures
    /\ fetcher' = [fetcher EXCEPT !.inFlight = RemoveAt(@, i), !.failures = @ + 1]
    /\ UNCHANGED debouncer
    /\ UNCHANGED tableVars
    /\ SyncRest

NextSync ==
    \/ \E n \in HandSizes, form \in Forms : DealRound(n, form)
    \/ MountFetch
    \/ HandleRoundStarted
    \/ DebounceTick
    \/ DebounceStartsFetch
    \/ \E i \in 1..Len(fetcher.inFlight) : FetchReads(i)
    \/ \E i \in 1..Len(fetcher.inFlight) : FetchApplies(i)
    \/ \E i \in 1..Len(fetcher.inFlight) : FetchRejects(i)

SpecSync == Init /\ [][NextSync]_vars

\* Every event is delivered, time passes, due timers fire and every RPC call
\* is answered; after MaxRpcFailures rejections every answer is a success.
SpecSyncFair ==
    /\ SpecSync
    /\ WF_vars(MountFetch)
    /\ WF_vars(HandleRoundStarted)
    /\ WF_vars(DebounceTick)
    /\ WF_vars(DebounceStartsFetch)
    /\ \A i \in 1..(MaxRounds + 1) :
          /\ WF_vars(i <= Len(fetcher.inFlight) /\ FetchReads(i))
          /\ WF_vars(i <= Len(fetcher.inFlight) /\ FetchApplies(i))

----------------------------------------------------------------------------
(* The actions of useTable that send a transaction and await its
   confirmation: joinTable, startRound, quitTable, shuffleCards, placeCards
   and callLiar, from the point where the transaction has been sent. *)

MaxSubmits == 2      \* calls of the actions in one behaviour

Actions == {"joinTable", "startRound", "quitTable", "shuffleCards", "placeCards", "callLiar"}

\* message of the Error that the timer of confirmWithTimeout rejects with
TimedOutMessage == "Transaction timed out after 60s. Check your wallet or Solscan."

\* message of any Error that confirmTransaction rejects with
RejectedMessage == "rejected"

\* err.name of the rejection of confirmTransaction when the blockhash expired
ExpiredName == "TransactionExpiredBlockheightExceededError"

\* A call of an action: where it is (awaiting the confirmation or returned),
\* how the await ended, whether it called fetchTable, the message it passed to
\* setError and the boolean it returned.
SubmitRec(action, pc, outcome, refetch, error, returned) ==
    [action |-> action, pc |-> pc, outcome |-> outcome, refetch |-> refetch,
     error |-> error, returned |-> returned]

\* The action after confirmTransaction resolved, with value.err set or not:
\* confirmWithTimeout drops the value; shuffleCards reads it.
AfterConfirmed(sub, err) ==
    IF sub.action = "shuffleCards" /\ err
    THEN SubmitRec(sub.action, "returned", "confirmedErr", FALSE, "none", "false")
    ELSE SubmitRec(sub.action, "returned", IF err THEN "confirmedErr" ELSE "confirmed",
                   sub.action # "quitTable", "none", "true")

\* The catch block of the action for an Error with the given name and message.
AfterThrow(sub, outcome, name, message) ==
    IF sub.action = "shuffleCards"
    THEN SubmitRec(sub.action, "returned", outcome, name = ExpiredName, "none", "false")
    ELSE SubmitRec(sub.action, "returned", outcome, FALSE, message, "false")

SubmitRest ==
    /\ UNCHANGED <<otherCache, cacheCall, reloads, debouncer, health, fetcher, cardHandleMap>>
    /\ UNCHANGED tableVars
    /\ UNCHANGED eventVars

\* The early returns of an action: the wallet is not connected, a
\* precondition is refused (joinTable: no or a taken character; placeCards: no
\* card picked or shuffling not finished), or shuffleCards is already running.
Refusals == {"walletMissing", "precondition", "reentrant"}

\* message passed to setError by an early return (shuffleCards passes none)
RefusedMessage == "refused"

\* message of an Error thrown before the transaction is sent
ThrownMessage == "thrown"

\* Whether the action has the early return, given isShufflingRef.current.
Refuses(action, why, shuffling) ==
    CASE why = "walletMissing" -> TRUE
      [] why = "precondition" -> action \in {"joinTable", "placeCards"}
      [] why = "reentrant" -> action = "shuffleCards" /\ shuffling

\* The action after an early return.
AfterRefusal(action, why) ==
    SubmitRec(action, "returned", why, FALSE,
              IF action = "shuffleCards" THEN "none" ELSE RefusedMessage, "false")

\* The finally of shuffleCards that leaves the ref set unless the shuffle went through.
ReleaseOnSuccessOnly(sub, shuffling) ==
    IF sub.action = "shuffleCards" /\ sub.returned = "true" THEN FALSE ELSE shuffling

\* isShufflingRef.current after the finally block of an action that returned.
AfterFinally(sub, shuffling) ==
    IF sub.action = "shuffleCards" THEN FALSE ELSE shuffling

\* An action returns early: nothing is simulated or sent.
ReturnEarly(action, why) ==
    /\ Len(submits) < MaxSubmits
    /\ Refuses(action, why, isShufflingRef)
    /\ submits' = Append(submits, AfterRefusal(action, why))
    /\ UNCHANGED isShufflingRef
    /\ SubmitRest

\* An action goes past its early returns and throws before its transaction
\* is sent (the simulation or the signing fails): catch and finally.
ThrowsBeforeSend(action) ==
    /\ Len(submits) < MaxSubmits
    /\ ~Refuses(action, "reentrant", isShufflingRef)
    /\ LET sub == AfterThrow(SubmitRec(action, "send", "none", FALSE, "none", "none"),
                              "exception", "Error", ThrownMessage)
       IN  /\ submits' = Append(submits, sub)
           /\ isShufflingRef' = AfterFinally(sub, action = "shuffleCards" \/ isShufflingRef)
    /\ SubmitRest

\* An action goes past its early returns (shuffleCards sets isShufflingRef),
\* sends its transaction and awaits the confirmation.
SubmitTx(action) ==
    /\ Len(submits) < MaxSubmits
    /\ ~Refuses(action, "reentrant", isShufflingRef)
    /\ submits' = Append(submits, SubmitRec(action, "confirm", "none", FALSE, "none", "none"))
    /\ isShufflingRef' = (action = "shuffleCards" \/ isShufflingRef)
    /\ SubmitRest

\* confirmTransaction resolves before the timer fires.
ConfirmResolves(i, err) ==
    /\ submits[i].pc = "confirm"
    /\ submits' = [submits EXCEPT ![i] = AfterConfirmed(@, err)]
    /\ isShufflingRef' = AfterFinally(submits'[i], isShufflingRef)
    /\ SubmitRest

\* confirmTransaction rejects before the timer fires.
ConfirmRejects(i, name) ==
    /\ submits[i].pc = "confirm"
    /\ submits' = [submits EXCEPT ![i] =
                      AfterThrow(@, IF name = ExpiredName THEN "expired" ELSE "rejected",
                                 name, RejectedMessage)]
    /\ isShufflingRef' = AfterFinally(submits'[i], isShufflingRef)
    /\ SubmitRest

\* The 60 s timer fires before confirmTransaction settles.
ConfirmTimesOut(i) ==
    /\ submits[i].pc = "confirm"
    /\ submits' = [submits EXCEPT ![i] = AfterThrow(@, "timeout", "Error", TimedOutMessage)]
    /\ isShufflingRef' = AfterFinally(submits'[i], isShufflingRef)
    /\ SubmitRest

NextSubmit ==
    \/ \E action \in Actions, why \in Refusals : ReturnEarly(action, why)
    \/ \E action \in Actions : ThrowsBeforeSend(action)
    \/ \E action \in Actions : SubmitTx(action)
    \/ \E i \in 1..Len(submits), err \in BOOLEAN : ConfirmResolves(i, err)
    \/ \E i \in 1..Len(submits), name \in {ExpiredName, "Error"} : ConfirmRejects(i, name)
    \/ \E i \in 1..Len(submits) : ConfirmTimesOut(i)

SpecSubmit == Init /\ [][NextSubmit]_vars

----------------------------------------------------------------------------
(* The card-cache helpers on their own: loadCachedCards, saveCachedCards and
   clearCardCache called with any table, wallet and encrypted cards. *)

MyKey == getCardCacheKey(TableId, Wallet)

AllKeys == {MyKey} \cup OtherKeys

\* localStorage.getItem(key) in a localStorage holding mine under MyKey and
\* others under the other keys.
getItem(mine, others, key) == IF key = MyKey THEN mine ELSE others[key]

\* localStorage.setItem(key, item), and removeItem(key) for item = NoItem.
setItem(key, item) ==
    IF key = MyKey
    THEN /\ cardCache' = item
         /\ UNCHANGED otherCache
    ELSE /\ otherCache' = [otherCache EXCEPT ![key] = item]
         /\ UNCHANGED cardCache

\* The encrypted hands a caller can pass: any round's, of any length.
Hands(form) == {HandOf(r, n, form) : r \in 1..MaxRounds, n \in 0..MaxHand}

\* The decrypted cards of an encrypted hand.
DecryptedHand(encryptedCards) ==
    [i \in 1..Len(encryptedCards) |-> DecryptedCardOf(encryptedCards[i])]

CacheRest ==
    /\ UNCHANGED <<runs, myCards, isDecryptingCards, decryptFailed, tableGameState,
                   myEncryptedCards, playerCards, round, roundsSeen>>
    /\ UNCHANGED <<submits, reloads, debouncer, health, fetcher, isShufflingRef, cardHandleMap>>
    /\ UNCHANGED eventVars

\* saveCachedCards(tableId, wallet, encryptedCards, cards) with the decrypted
\* cards of a non-empty hand.
CacheSave(key, form, encryptedCards) ==
    /\ cardForm \in {Null, form}
    /\ cardForm' = form
    /\ encryptedCards # <<>>
    /\ setItem(key, saveCachedCards(encryptedCards, DecryptedHand(encryptedCards)))
    /\ cacheCall' = CacheCall("save", key, encryptedCards, <<>>)
    /\ CacheRest

\* loadCachedCards(tableId, wallet, encryptedCards)
CacheLoad(key, form, encryptedCards) ==
    /\ cardForm \in {Null, form}
    /\ cardForm' = form
    /\ LET cached == loadCachedCards(getItem(cardCache, otherCache, key), encryptedCards)
       IN  /\ setItem(key, cached.item)
           /\ cacheCall' = CacheCall("load", key, encryptedCards, cached.cards)
    /\ CacheRest

\* clearCardCache(tableId, wallet)
CacheClear(key) ==
    /\ setItem(key, NoItem)
    /\ cacheCall' = CacheCall("clear", key, <<>>, <<>>)
    /\ UNCHANGED cardForm
    /\ CacheRest

NextCache ==
    \/ \E key \in AllKeys, form \in Forms :
            \E encryptedCards \in Hands(form) : CacheSave(key, form, encryptedCards)
    \/ \E key \in AllKeys, form \in Forms :
            \E encryptedCards \in Hands(form) : CacheLoad(key, form, encryptedCards)
    \/ \E key \in AllKeys : CacheClear(key)

SpecCache == Init /\ [][NextCache]_vars

----------------------------------------------------------------------------
(* Definitions used to state the properties *)

PollIds == 1..Len(polls)

\* The calls of onGameEvent made by invocation p, in order.
DeliveredBy(p) == SelectSeq(delivered, LAMBDA d : d.cycle = p)

\* The invocations that delivered an event of transaction s.
DeliverersOf(s) ==
    {p \in PollIds : \E i \in 1..Len(delivered) :
                        delivered[i].sig = s /\ delivered[i].cycle = p}

\* A log line that carries a known event of the subscribed table.
IsTableEvent(line) ==
    /\ line.prefix
    /\ line.form = "event"
    /\ line.name \in EventNames
    /\ line.tableId = TableId

\* The deliveries due for the log lines of transaction s from line i on, when
\* invocation p processes it.
RECURSIVE ExpectedFrom(_, _, _)
ExpectedFrom(p, s, i) ==
    IF i > Len(chain[s].logs) THEN <<>>
    ELSE (IF IsTableEvent(chain[s].logs[i])
          THEN <<[cycle |-> p, sig |-> s, line |-> i,
                  ev |-> PayloadFor(chain[s].logs[i])]>>
          ELSE <<>>) \o ExpectedFrom(p, s, i + 1)

\* The deliveries due from invocation p for its batch from index j on: every
\* listed transaction, oldest first, that did not fail on chain and whose fetch
\* gave its log lines.
RECURSIVE ExpectedBatch(_, _)
ExpectedBatch(p, j) ==
    IF j > Len(polls[p].sigs) THEN <<>>
    ELSE LET s == NewSigs(polls[p])[j]
         IN  (IF chain[s].err \/ s \in polls[p].failed \/ ~chain[s].hasLogs
              THEN <<>> ELSE ExpectedFrom(p, s, 1)) \o ExpectedBatch(p, j + 1)

\* The reducer applied to the events of deliveries ds, in order.
RECURSIVE ApplyAll(_, _, _)
ApplyAll(gs, ds, t) ==
    IF ds = <<>> THEN gs
    ELSE ApplyAll(updateGameState(gs, Head(ds).ev, t), Tail(ds), t)

IsPrefix(a, b) == Len(a) <= Len(b) /\ SubSeq(b, 1, Len(a)) = a

\* What a step adds to delivered.
Added == SubSeq(delivered', Len(delivered) + 1, Len(delivered'))

\* Invocation p ends in this step.
Ends(p) == polls[p].pc # "done" /\ polls'[p].pc = "done"

NoDuplicates(seq) == \A i, j \in 1..Len(seq) : seq[i] = seq[j] => i = j

----------------------------------------------------------------------------
(* The properties *)

\* C1: the invocation that sets the baseline delivers no event, and no
\* transaction at or before the baseline signature is ever delivered.
C1_BaselineNotReplayed ==
    \A p \in PollIds :
        polls[p].result = "baseline" =>
            /\ DeliveredBy(p) = <<>>
            /\ \A i \in 1..Len(delivered) : delivered[i].sig > polls[p].sigs[1]

\* C2: within one invocation events are delivered oldest transaction first, in
\* log order within a transaction; every event delivered by a later invocation
\* belongs to a transaction newer than every transaction delivered by an
\* earlier invocation.
C2_DeliveryOrdered ==
    \A i, j \in 1..Len(delivered) :
        LET a == delivered[i]
            b == delivered[j]
        IN  /\ (a.cycle = b.cycle /\ i < j) =>
                    (a.sig < b.sig \/ (a.sig = b.sig /\ a.line < b.line))
            /\ a.cycle < b.cycle => a.sig < b.sig

\* C3: the events of any transaction are delivered by at most two invocations.
C3_AtMostTwice ==
    \A s \in 1..Len(chain) : Cardinality(DeliverersOf(s)) <= 2

\* C4: once the subscription is stopped no poll is started, no event is
\* delivered, and gameState, eventLog and activeAnimation are not changed.
C4_NothingAfterStop ==
    [][~isActive =>
          /\ Len(polls') = Len(polls)
          /\ delivered' = delivered
          /\ gameState' = gameState
          /\ eventLog' = eventLog
          /\ activeAnimation' = activeAnimation]_vars

\* C5: an invocation that lists signatures after the baseline leaves
\* lastSignature at the newest signature it listed when it ends, whether or
\* not it decoded any event.
C5_CursorAdvances ==
    [][\A p \in PollIds :
          (Ends(p) /\ polls'[p].result \notin {"empty", "baseline", "listError"})
              => /\ polls'[p].sigs # <<>>
                 /\ lastSignature' = polls'[p].sigs[1]]_vars

\* An invocation has ended on a batch holding a transaction with only foreign
\* or undecodable lines, delivered nothing, and the cursor is at the newest
\* signature of its batch.
C5_Witness ==
    \E p \in PollIds :
        /\ polls[p].result = "processed"
        /\ DeliveredBy(p) = <<>>
        /\ polls[p].failed = {}
        /\ \E j \in 1..Len(polls[p].sigs) : chain[polls[p].sigs[j]] = TxForeign
        /\ polls[p].until # 0
        /\ lastSignature = polls[p].sigs[1]

\* C6: an invocation one of whose fetches failed still ends with lastSignature
\* at the newest signature of its batch, and, the subscription being active,
\* has delivered in order the events of every other transaction of the batch.
C6_FetchFailureSkipped ==
    [][\A p \in PollIds :
          (Ends(p) /\ polls'[p].failed # {})
              => /\ lastSignature' = polls'[p].sigs[1]
                 /\ isActive' => (DeliveredBy(p) = ExpectedBatch(p, 1))']_vars

\* An invocation failed to fetch one transaction, delivered the events of a
\* newer one of the same batch, and the cursor is at the newest of the batch.
C6_Witness ==
    \E p \in PollIds :
        /\ polls[p].result = "processed"
        /\ \E s \in polls[p].failed :
              \E i \in 1..Len(delivered) :
                  delivered[i].cycle = p /\ delivered[i].sig > s
        /\ lastSignature = polls[p].sigs[1]

\* C7: a listing that fails delivers nothing and leaves lastSignature,
\* isInitialized and the interval as they are; every invocation starts from the
\* current lastSignature; and the interval is cleared by the cleanup alone.
C7_ListFailureRetried ==
    [][/\ \A p \in PollIds :
            (Ends(p) /\ polls'[p].result = "listError")
                => /\ lastSignature' = lastSignature
                   /\ isInitialized' = isInitialized
                   /\ intervalOn' = intervalOn
                   /\ isActive' = isActive
                   /\ viewVars' = viewVars
       /\ Len(polls') > Len(polls) =>
            /\ polls'[Len(polls')].pc = "list"
            /\ polls'[Len(polls')].until = lastSignature
       /\ (intervalOn /\ ~intervalOn') => (isActive /\ ~isActive')]_vars

\* A listing failed, the interval is still set, and the invocation started
\* next listed from the same cursor and took the baseline.
C7_Witness ==
    \E p, q \in PollIds :
        /\ p < q
        /\ polls[p].result = "listError"
        /\ polls[q].until = polls[p].until
        /\ polls[q].result = "baseline"
        /\ intervalOn

\* C8: what a step delivers is exactly the known events of the subscribed
\* table among the log lines of one transaction, in order, each line that is
\* not one being skipped without ending the batch; gameState is the reducer
\* applied to those events and changes in no other step of the subscription.
C8_OnlyTableEvents ==
    [][/\ IsPrefix(delivered, delivered')
       /\ Added # <<>> =>
            /\ \E p \in PollIds : \E s \in 1..Len(chain) :
                    Added = ExpectedFrom(p, s, 1)
            /\ gameState' = ApplyAll(gameState, Added, now)
            /\ Len(eventLog') = Len(eventLog) + Len(Added)
       /\ Added = <<>> =>
            \/ gameState' = gameState /\ eventLog' = eventLog
            \/ isActive /\ ~isActive']_vars

\* The events of a transaction whose earlier lines are text, undecodable,
\* unknown, of another table and without table id have been delivered.
C8_Witness ==
    /\ Len(delivered) >= 2
    /\ chain[delivered[1].sig] = TxMixed
    /\ delivered[1].ev = Payload("playerJoined", TableId, "p1", Null, Null)
    /\ delivered[2].ev = Payload("cardPlaced", TableId, "p1", Null, Null)
    /\ gameState.players = <<"p1">>
    /\ Len(gameState.moves) = 1

\* C9: applying a playerJoined or playerEleminated event twice gives the state
\* that applying it once gives.
C9_JoinEliminateIdempotent ==
    \A e \in EventsOf(TableId) :
        e.type \in {"playerJoined", "playerEleminated"} =>
            \A t \in 0..MaxTime :
                updateGameState(updateGameState(gameState, e, now), e, t)
                    = updateGameState(gameState, e, now)

\* A join event has been applied for a player who had joined and been
\* eliminated.
C9_Witness ==
    /\ gameState.players = <<"p1", "p2">>
    /\ gameState.activePlayers = <<"p2">>
    /\ gameState.lastEvent = Payload("playerJoined", TableId, "p1", Null, Null)

\* C10: activePlayers is a subset of players and neither holds an identity
\* twice.
C10_ActiveSubsetNoDuplicates ==
    /\ \A i \in 1..Len(gameState.activePlayers) :
            Includes(gameState.players, gameState.activePlayers[i])
    /\ NoDuplicates(gameState.players)
    /\ NoDuplicates(gameState.activePlayers)

\* Two players have joined and one of them has been eliminated.
C10_Witness ==
    /\ Len(gameState.players) = 2
    /\ gameState.activePlayers = <<"p1">>
    /\ gameState.lastEvent = Payload("playerEleminated", TableId, "p2", Null, Null)

\* C11: in every reachable GameState currentTurn is none or a member of
\* players.
C11_CurrentTurnIsPlayer ==
    \/ gameState.currentTurn = Null
    \/ Includes(gameState.players, gameState.currentTurn)

\* A step that replaces the GameState by the initial state of another table.
IsTableReset == gameState'.tableId # gameState.tableId

\* C12: every step leaves moves unchanged, appends exactly one Move for the
\* player of the cardPlaced event applied, or empties it; moves is emptied
\* exactly when a roundStarted event is applied or the GameState is reset by a
\* table change.
C12_MovesAppendOnly ==
    [][LET m == gameState.moves
           m2 == gameState'.moves
           applied == gameState'.lastEvent
       IN  /\ \/ m2 = m
              \/ /\ Len(m2) = Len(m) + 1
                 /\ SubSeq(m2, 1, Len(m)) = m
                 /\ applied.type = "cardPlaced"
                 /\ m2[Len(m2)].player = applied.player
              \/ m2 = <<>>
           /\ (m # <<>> /\ m2 = <<>>) =>
                (IsTableReset \/ applied.type = "roundStarted")
           /\ (~IsTableReset /\ applied.type = "roundStarted") => m2 = <<>>
      ]_vars

\* A round was started and as many cards as the bound allows were placed in it.
C12_Witness ==
    /\ gameState.roundActive
    /\ Len(gameState.moves) = MaxMoves
    /\ gameState.lastEvent.type = "cardPlaced"

\* C13: applying roundStarted to any GameState gives moves = [], liarCaller =
\* none, currentTurn = none, roundActive = true and lastEvent = the event, and
\* leaves tableId, players and activePlayers as they were.
C13_RoundStartedResets ==
    LET e == Payload("roundStarted", TableId, Null, Null, Null)
        s == updateGameState(gameState, e, now)
    IN  s = [tableId |-> gameState.tableId,
             players |-> gameState.players,
             activePlayers |-> gameState.activePlayers,
             currentTurn |-> Null,
             moves |-> <<>>,
             roundActive |-> TRUE,
             liarCaller |-> Null,
             lastEvent |-> e]

\* A GameState with players, a full list of moves, a turn and a liar caller,
\* to which roundStarted is applied.
C13_Witness ==
    /\ Len(gameState.players) = 2
    /\ Len(gameState.moves) = MaxMoves
    /\ gameState.liarCaller # Null
    /\ gameState.currentTurn # Null

\* C14: when suffleCardsForPlayer with next = X has just been applied,
\* currentTurn is X, and applying tableTrun for Y then leaves currentTurn = Y.
C14_TurnChangedOverrides ==
    gameState.lastEvent.type = "suffleCardsForPlayer" =>
        /\ gameState.currentTurn = gameState.lastEvent.next
        /\ \A y \in Players :
             updateGameState(gameState,
                             Payload("tableTrun", TableId, y, Null, Null),
                             now).currentTurn = y

\* suffleCardsForPlayer with next = p1 has just been applied.
C14_Witness ==
    /\ gameState.lastEvent.type = "suffleCardsForPlayer"
    /\ gameState.lastEvent.next = "p1"
    /\ gameState.currentTurn = "p1"

\* C15: applying cardPlaced for P to a GameState with moves = m gives m
\* followed by exactly one Move for P stamped with the time of the
\* application, and lastEvent = the event; every other field is unchanged.
C15_CardPlacedAppends ==
    \A e \in EventsOf(TableId) :
        e.type = "cardPlaced" =>
            updateGameState(gameState, e, now) =
                [gameState EXCEPT
                    !.moves = gameState.moves
                                \o <<[player |-> e.player, timestamp |-> now]>>,
                    !.lastEvent = e]

\* The same player has placed cards twice in a row.
C15_Witness ==
    /\ Len(gameState.moves) = 2
    /\ gameState.moves[1].player = "p1"
    /\ gameState.moves[2].player = "p1"
    /\ gameState.lastEvent = Payload("cardPlaced", TableId, "p1", Null, Null)

\* C16: applying playerEleminated for Q removes Q from activePlayers and
\* leaves players unchanged, and every step other than the reset on a table
\* change leaves players a prefix of what it becomes.
C16_PlayersOnlyGrow ==
    [][~IsTableReset =>
         /\ IsPrefix(gameState.players, gameState'.players)
         /\ gameState'.lastEvent.type = "playerEleminated" =>
              /\ gameState'.players = gameState.players
              /\ gameState'.activePlayers
                    = Filter(gameState.activePlayers, gameState'.lastEvent.player)
              /\ ~Includes(gameState'.activePlayers, gameState'.lastEvent.player)
      ]_vars

\* Both players joined and both were eliminated.
C16_Witness ==
    /\ gameState.players = <<"p1", "p2">>
    /\ gameState.activePlayers = <<>>
    /\ gameState.lastEvent.type = "playerEleminated"

\* C17: every branch of the reducer sets lastEvent to the incoming event, and
\* for liarsTableCreated, emptyBulletFired, gameOver and gameWinner that is the
\* only change.
C17_LastEventAlwaysSet ==
    \A e \in EventsOf(TableId) :
        \A t \in 0..MaxTime :
            LET s == updateGameState(gameState, e, t)
            IN  /\ s.lastEvent = e
                /\ e.type \in {"liarsTableCreated", "emptyBulletFired",
                               "gameOver", "gameWinner"}
                     => s = [gameState EXCEPT !.lastEvent = e]

\* gameOver has been applied to a GameState in an active round with moves and
\* a liar caller.
C17_Witness ==
    /\ gameState.lastEvent.type = "gameOver"
    /\ gameState.roundActive
    /\ gameState.moves # <<>>
    /\ gameState.liarCaller # Null

\* The decryptMyCards() invocations that have not returned.
InFlight == {r \in 1..Len(runs) : runs[r].pc \notin RunEnded}

\* The requests of kind op made by the invocations in flight.
Requests(op) ==
    UNION {{<<r, k>> : k \in {j \in 1..Len(runs[r].ops) : runs[r].ops[j] = op}} :
            r \in 1..Len(runs)}

\* C18: a decryptMyCards invocation made while one is in flight is a no-op,
\* so at most one invocation is in flight, at most one access-grant
\* transaction has been submitted by the invocations in flight, and the
\* revealed hand holds each card once.
C18_NoReentry ==
    /\ Cardinality(InFlight) <= 1
    /\ Cardinality(Requests("sendGrant")) <= 1
    /\ NoDuplicates(myCards)

\* The stage of the pipeline a suspended invocation is in: FetchingHandles,
\* GrantingAccess, AwaitingPropagation, Decrypting, and the end.
RunRank(pc) ==
    CASE pc = "fetch" -> 1
      [] pc \in {"grant", "confirm"} -> 2
      [] pc = "settle" -> 3
      [] pc = "decrypt" -> 4
      [] OTHER -> 5

\* Every request b in ops comes after a request a.
Before(ops, a, b) ==
    \A k \in 1..Len(ops) : ops[k] = b => \E j \in 1..(k - 1) : ops[j] = a

\* C19: an invocation only moves forward through fetching the handles,
\* granting access, awaiting propagation and decrypting, and once it has
\* returned it stays returned; it requests no decryption before the grant was
\* sent and confirmed and the settle delay elapsed, and it builds the grant
\* only after the handles were fetched.
C19_PipelineForwardOnly ==
    [][/\ Len(runs') >= Len(runs)
       /\ \A r \in 1..Len(runs) :
            /\ RunRank(runs'[r].pc) >= RunRank(runs[r].pc)
            /\ runs[r].pc \in RunEnded => runs'[r] = runs[r]
       /\ \A r \in 1..Len(runs') :
            LET ops == runs'[r].ops
            IN  /\ Before(ops, "fetchPlayer", "buildGrant")
                /\ Before(ops, "buildGrant", "sendGrant")
                /\ Before(ops, "sendGrant", "grantConfirmed")
                /\ Before(ops, "grantConfirmed", "settled")
                /\ Before(ops, "settled", "decrypt")
                /\ runs'[r].pc = "decrypt" =>
                     \E k \in 1..Len(ops) : ops[k] = "decrypt"
      ]_vars

\* The only invocation went through every stage and revealed a full hand.
C19_Witness ==
    /\ Len(runs) = 1
    /\ runs[1].pc = "done"
    /\ Len(myCards) = MaxHand
    /\ cardCache # NoItem

\* C20: a step of an invocation that awaits the decryption of card i either
\* reveals card i, or ends the invocation as failed: decryptFailed is set,
\* isDecryptingCards is cleared, no card after i has been or will be
\* requested, the cards before i stay in the revealed hand in order, and
\* nothing is written to the card cache.
C20_DecryptFailureAborts ==
    [][\A r \in 1..Len(runs) :
         (runs[r].pc = "decrypt" /\ runs'[r] # runs[r]) =>
            LET run == runs[r]
                card == DecryptedCardOf(run.cards[run.idx])
            IN  \/ /\ myCards' = Append(myCards, card)
                   /\ runs'[r].pc \in {"decrypt", "done"}
                \/ /\ runs'[r] = Returned([run EXCEPT !.pc = "failed"])
                   /\ Cardinality({k \in 1..Len(run.ops) : run.ops[k] = "decrypt"})
                        = run.idx
                   /\ decryptFailed'
                   /\ ~isDecryptingCards'
                   /\ myCards' = myCards
                   /\ run.decryptedCards
                        = [k \in 1..(run.idx - 1) |-> DecryptedCardOf(run.cards[k])]
                   /\ (Len(runs) = 1 /\ roundsSeen = 0) =>
                        myCards' = run.decryptedCards
                   /\ cardCache' = cardCache
      ]_vars

\* The only invocation failed on a card after the first: the cards before it
\* are revealed and nothing is cached.
C20_Witness ==
    /\ Len(runs) = 1
    /\ runs[1].pc = "failed"
    /\ decryptFailed
    /\ ~isDecryptingCards
    /\ Len(myCards) \in 1..(MaxHand - 1)
    /\ cardCache = NoItem

C22_LoadReturnsOnlyTheSavedHand ==
    [][cacheCall' # cacheCall =>
         LET call == cacheCall'
             key == call.key
             before == getItem(cardCache, otherCache, key)
             after == getItem(cardCache', otherCache', key)
         IN  /\ \A other \in AllKeys \ {key} :
                    getItem(cardCache', otherCache', other)
                        = getItem(cardCache, otherCache, other)
             /\ (call.op = "load" /\ before = NoItem) =>
                    (call.result = <<>> /\ after = NoItem)
             /\ (call.op = "load" /\ cacheCall.op = "save" /\ cacheCall.key = key) =>
                    IF call.hand = cacheCall.hand
                    THEN call.result = DecryptedHand(call.hand) /\ after = before
                    ELSE call.result = <<>> /\ after = NoItem
      ]_vars

\* C23: every action whose wait for the confirmation ended by the 60 s timer
\* has called fetchTable.
C23_TimeoutTriggersRefetch ==
    \A i \in 1..Len(submits) :
        submits[i].outcome = "timeout" => submits[i].refetch

\* C24: the step on which an invocation finds the player account without
\* cards ends it: it has requested no grant and no decryption, the revealed
\* hand and the card cache are as before, isDecryptingCards is cleared, and
\* the failure shows in a flag of the hook (decryptFailed, the only flag it
\* has for a run that ended without a hand).
C24_EmptyHandIsFlagged ==
    [][\A r \in 1..Len(runs) :
         (runs[r].pc = "fetch" /\ runs'[r].pc = "empty") =>
            /\ \A k \in 1..Len(runs[r].ops) :
                   runs[r].ops[k] \notin {"buildGrant", "sendGrant", "decrypt"}
            /\ runs'[r] = Returned([runs[r] EXCEPT !.pc = "empty"])
            /\ myCards' = myCards
            /\ cardCache' = cardCache
            /\ ~isDecryptingCards'
            /\ decryptFailed'
      ]_vars

\* The conditions under which the effect that loads the cache or triggers
\* decryption goes past its early returns.
AutoDecryptDue ==
    /\ myEncryptedCards # <<>>
    /\ myCards = <<>>
    /\ ~isDecryptingCards
    /\ ~decryptFailed
    /\ tableGameState = "playing"

\* The card cache holds an entry whose fingerprint is that of the encrypted
\* cards of the table view.
CacheMatches ==
    /\ cardCache # NoItem
    /\ cardCache[1].fingerprint = getEncryptedFingerprint(myEncryptedCards)

C26_CallsCoalesced ==
    [][/\ debouncer'.sinceFetch = 0 /\ debouncer.sinceFetch # 0 =>
            /\ debouncer.sinceCall = DebounceMs
            /\ debouncer.burst >= 1
            /\ debouncer'.burst = 0
            /\ debouncer'.coalesced = debouncer.burst
            /\ debouncer'.waiting = -1
            /\ debouncer'.timer = -1
            /\ debouncer.sinceFetch \in {-1, DebounceMs}
       /\ debouncer'.coalesced # debouncer.coalesced => debouncer'.sinceFetch = 0
       /\ debouncer'.burst > debouncer.burst =>
            /\ debouncer'.timer = DebounceMs
            /\ debouncer'.sinceFetch = debouncer.sinceFetch
       /\ debouncer'.burst = 0 /\ debouncer.burst > 0 => debouncer'.sinceFetch = 0
      ]_vars

\* MaxBurst or more calls, each less than DebounceMs after the one before,
\* were followed by one fetch.
C26_Witness ==
    /\ debouncer.sinceFetch = 0
    /\ debouncer.coalesced = MaxBurst
    /\ debouncer.burst = 0
    /\ debouncer.waiting = -1
    /\ debouncer.sinceCall = DebounceMs

\* C27: every call of debouncedFetchTable is followed by a fetch that the
\* debouncer starts, whatever calls come after it.
C27_RefetchFollowsEveryCall == (debouncer.waiting # -1) ~> (debouncer.waiting = -1)

\* C28: while the component is mounted the status follows the streak of
\* failed probes, the initial check counted: connected while no probe has failed since the last one that
\* succeeded, reconnecting after exactly one failure, and disconnected only
\* after two or more failures in a row.
C28_StatusFollowsStreak ==
    health.mounted =>
        /\ health.streak = 0 => health.status = "connected"
        /\ health.streak = 1 => health.status = "reconnecting"
        /\ health.status = "disconnected" => health.streak >= 2

\* The run of the effect whose probes are still wanted: none once the
\* component is unmounted.
LiveEffect == IF health.mounted THEN health.effect ELSE 0

\* C29: a probe is sent on a tick only by the interval of the current run of
\* the effect of a mounted component, and the result of a probe that an
\* earlier run or an unmounted component left in flight changes neither the
\* status nor failCountRef.
C29_TornDownMonitorIsSilent ==
    [][/\ (Len(health'.probes) > Len(health.probes)
           /\ health'.probes[Len(health'.probes)].kind = "tick") =>
              /\ health.mounted
              /\ health.interval
              /\ health'.probes[Len(health'.probes)].effect = health.effect
       /\ \A i \in 1..Len(health.probes) :
              (/\ health'.probes = RemoveAt(health.probes, i)
               /\ health.probes[i].effect # LiveEffect) =>
                  /\ health'.status = health.status
                  /\ health'.failCount = health.failCount
      ]_vars

\* The table view shows what the chain holds: the game state and the
\* encrypted cards of the wallet.
ViewIsOnChain ==
    /\ tableGameState = GameStateOf(OnChain)
    /\ myEncryptedCards = playerCards

\* C30: once the chain has stopped changing and the RPC calls succeed, the
\* table view comes to show what the chain holds and goes on showing it.
C30_ViewConverges == <>[]ViewIsOnChain

\* C31: every call of joinTable, startRound, quitTable, shuffleCards,
\* placeCards or callLiar that returned false has passed a message to
\* setError.
C31_FalseReturnSetsError ==
    \A i \in 1..Len(submits) :
        submits[i].returned = "false" => submits[i].error # "none"

\* The shuffleCards calls that are past the early returns and have not
\* returned.
ShufflesInFlight == {i \in 1..Len(submits) :
                        submits[i].action = "shuffleCards" /\ submits[i].pc # "returned"}

\* C33: at most one shuffleCards call is in flight, and isShufflingRef is set
\* exactly while one is, so that it is released on every exit path and a
\* later call proceeds; a call made while one is in flight returns false at
\* once, having sent nothing and called neither setError nor fetchTable.
C33_OneShuffleInFlight ==
    /\ Cardinality(ShufflesInFlight) <= 1
    /\ isShufflingRef <=> (ShufflesInFlight # {})
    /\ \A i \in 1..Len(submits) :
          submits[i].outcome = "reentrant" =>
             /\ submits[i].action = "shuffleCards"
             /\ submits[i].pc = "returned"
             /\ submits[i].returned = "false"
             /\ ~submits[i].refetch

\* A shuffleCards call that timed out was followed by a call that went
\* through to its confirmation wait.
C33_Witness ==
    /\ Len(submits) = 2
    /\ submits[1].action = "shuffleCards"
    /\ submits[1].outcome = "timeout"
    /\ submits[2].action = "shuffleCards"
    /\ submits[2].pc = "confirm"
    /\ isShufflingRef

\* The cardPlaced events of the table that successful transactions on the
\* ledger hold.
CardPlacedOnChain ==
    {<<sig, k>> \in (1..Len(chain)) \X (1..Len(TxMixed.logs)) :
        /\ ~chain[sig].err
        /\ k <= Len(chain[sig].logs)
        /\ chain[sig].logs[k] = EventLine("cardPlaced", TableId, "p1", Null, Null)}

\* C32: moves holds no more than one Move for each cardPlaced event of the
\* table on the ledger (no roundStarted is among the transactions, so the
\* round is the whole behaviour).
C32_MovesDuplicateFree == Len(gameState.moves) <= Cardinality(CardPlacedOnChain)

\* C34: the cursor never moves backwards: no step of the subscription takes
\* lastSignature from a later signature to an earlier one.
C34_CursorNeverMovesBack == [][lastSignature' >= lastSignature]_vars

\* The signature the first successful listing recorded as the baseline.
BaselineSignature ==
    LET p == CHOOSE q \in 1..Len(polls) : polls[q].result = "baseline"
    IN  polls[p].sigs[1]

\* The log lines of the transaction with signature sig that decode to an
\* event of the table.
DecodableLines(sig) ==
    {k \in 1..Len(chain[sig].logs) : LineStep(chain[sig].logs[k], TableId).do # "skip"}

\* C35: with every RPC call succeeding, each successful transaction confirmed
\* after the baseline that the cursor has passed (so that no later listing
\* returns it) has had every decodable event of the table delivered.
C35_NoEventLost ==
    isInitialized =>
        \A sig \in 1..Len(chain) :
            (sig > BaselineSignature /\ sig <= lastSignature /\ ~chain[sig].err
                /\ chain[sig].hasLogs) =>
                \A k \in DecodableLines(sig) :
                    \E i \in 1..Len(delivered) :
                        delivered[i].sig = sig /\ delivered[i].line = k

\* C36: the view is never written by a fetchTable() call started before the
\* call that wrote it last.
C36_NoStaleOverwrite == [][fetcher'.applied >= fetcher.applied]_vars

\* C37: when the roundStarted event of every round dealt has been handled,
\* no invocation is in flight and the revealed hand is not empty, the
\* revealed hand is the decryption, card by card and in order, of the hand
\* the player holds on chain.
C37_RevealedHandIsCurrent ==
    (myCards # <<>> /\ InFlight = {} /\ roundsSeen = round) =>
        myCards = DecryptedHand(playerCards)

\* The call of handleEvent that set the animation trigger now shown: the last
\* one whose event has an animation.
ActiveOwner ==
    LET owners == {i \in 1..Len(delivered) : AnimationTypeOf(delivered[i].ev.type) # Null}
    IN  CHOOSE i \in owners : \A j \in owners : j <= i

\* C38: a step that clears the animation trigger is the firing of the timer
\* set together with that trigger, and not of a timer set with an earlier one.
C38_ClearedByOwnTimer ==
    [][(activeAnimation # NoAnimation /\ activeAnimation' = NoAnimation) =>
          \E t \in BagToSet(timers) :
              /\ timers' = timers (-) SetToBag({t})
              /\ t.owner = ActiveOwner]_vars

\* C39: a placeCards that returns true, called with the whole hand revealed
\* and no invocation of decryptMyCards in flight, leaves as the revealed hand
\* the decrypted cards, in the order of the chain, of the cards that remain
\* in the player account.
C39_HandRebuiltAfterPlace ==
    [][(/\ round' = round
        /\ playerCards' # playerCards
        /\ InFlight = {}
        /\ myCards = DecryptedHand(playerCards)) =>
          myCards' = DecryptedHand(playerCards')]_vars

\* C40: the automatic trigger starts an invocation only with decryptFailed
\* clear, no invocation in flight and no card revealed; and decryptFailed,
\* once set, is cleared only by the handling of a roundStarted event.
C40_TriggerHeldBack ==
    [][/\ (AutoDecryptUpTo(MaxTriggerRuns) /\ Len(runs') > Len(runs)) =>
             (~decryptFailed /\ InFlight = {} /\ myCards = <<>>)
       /\ (decryptFailed /\ ~decryptFailed') => roundsSeen' = roundsSeen + 1]_vars

====
